---- MODULE Spec2Model ----
(***************************************************************************)
(* A model of the aegis-email normalisation layer and feature extractor.   *)
(*                                                                         *)
(*   src/gmailDecoder.js        GmailEmailDecoder (decodeEmail,            *)
(*                              decodeParts, decodeBody)                   *)
(*   src/featureExtraction.js   FeatureExtractor                           *)
(*   src/unnamed/part_002       FeatureExtractor, the copy that            *)
(*                              canonicalises the context string           *)
(*                                                                         *)
(* Conventions.  A JavaScript string on which the code works character by  *)
(* character (header names, base64 data, body text, context strings) is a  *)
(* sequence of one-character strings; an opaque string (an id, a mime      *)
(* type, an error message) is a TLA+ string.  A value that may be          *)
(* undefined or null is None or Some(v).                                   *)
(***************************************************************************)
EXTENDS Integers, Sequences, FiniteSets, TLC

None == <<>>
Some(v) == <<v>>
IsSome(o) == Len(o) = 1
Get(o) == o[1]

(***************************************************************************)
(* Bounds of the model.                                                    *)
(***************************************************************************)
\* the part trees of the enumerated messages have at most MaxNodes parts
MaxNodes == 3
\* and nest at most MaxDepth levels of "parts" below the payload's own list
MaxDepth == 2
\* the header lists of the enumerated messages have at most MaxHeaders entries
MaxHeaders == 2

(***************************************************************************)
(* Characters.                                                             *)
(***************************************************************************)
Upper == <<"A","B","C","D","E","F","G","H","I","J","K","L","M",
           "N","O","P","Q","R","S","T","U","V","W","X","Y","Z">>
Lower == <<"a","b","c","d","e","f","g","h","i","j","k","l","m",
           "n","o","p","q","r","s","t","u","v","w","x","y","z">>
Digits == <<"0","1","2","3","4","5","6","7","8","9">>

\* printable ASCII, code 32 .. 126, in code order (the double quote, the
\* backslash and the backquote are written as words)
Ascii == <<" ","!","dquote","#","$","%","&","'","(",")","*","+",",","-",".","/">>
         \o Digits \o <<":",";","<","=",">","?","@">>
         \o Upper \o <<"[","backslash","]","^","_","backquote">>
         \o Lower \o <<"{","|","}","~">>

InSeq(c, s) == \E i \in 1..Len(s) : s[i] = c
IndexOf(c, s) == CHOOSE i \in 1..Len(s) : s[i] = c

\* String.prototype.toLowerCase, one character
LowerChar(c) == IF InSeq(c, Upper) THEN Lower[IndexOf(c, Upper)] ELSE c
\* String.prototype.toLowerCase
toLowerCase(s) == [i \in 1..Len(s) |-> LowerChar(s[i])]

(***************************************************************************)
(* Base64 (js-base64's Base64.decode, as decodeBody calls it).             *)
(***************************************************************************)
B64Alphabet == Upper \o Lower \o Digits \o <<"+", "/">>

\* body.data.replace(/-/g, '+').replace(/_/g, '/')
UrlSafeToStd(s) ==
    [i \in 1..Len(s) |-> IF s[i] = "-" THEN "+" ELSE IF s[i] = "_" THEN "/" ELSE s[i]]

\* the library drops every character outside the alphabet (padding included)
TidyB64(s) == SelectSeq(s, LAMBDA c : InSeq(c, B64Alphabet))

Sextet(c) == IndexOf(c, B64Alphabet) - 1

RECURSIVE SextetsToBytes(_)
SextetsToBytes(s) ==
    IF Len(s) < 2 THEN <<>>
    ELSE LET a == Sextet(s[1])
             b == Sextet(s[2])
             b1 == a * 4 + (b \div 16)
         IN IF Len(s) = 2 THEN <<b1>>
            ELSE LET c == Sextet(s[3])
                     b2 == (b % 16) * 16 + (c \div 4)
                 IN IF Len(s) = 3 THEN <<b1, b2>>
                    ELSE LET d == Sextet(s[4])
                             b3 == (c % 4) * 64 + d
                         IN <<b1, b2, b3>> \o SextetsToBytes(SubSeq(s, 5, Len(s)))

\* a decoded byte as a character (the enumerated data decodes to printable ASCII)
Chr(b) == IF b >= 32 /\ b <= 126 THEN Ascii[b - 31] ELSE "?"

Base64Decode(s) ==
    LET bytes == SextetsToBytes(TidyB64(s))
    IN [i \in 1..Len(bytes) |-> Chr(bytes[i])]

\* Base64.decode(body.data.replace(/-/g, '+').replace(/_/g, '/'))
DecodeData(data) == Base64Decode(UrlSafeToStd(data))

(***************************************************************************)
(* Mail-API messages.                                                      *)
(*                                                                         *)
(*   message  [id, internalDate, threadId, labelIds, payload]              *)
(*   payload  a part that may also carry headers                           *)
(*   part     [mimeType, filename, body, parts, headers]                   *)
(*   body     [attachmentId, data, size]                                   *)
(*   header   [name, value]                                                *)
(*                                                                         *)
(* Every field is None when the message leaves it out; an element of a     *)
(* parts array is Some(part), or None for a null element.                  *)
(***************************************************************************)
Body(attachmentId, data, size) ==
    [attachmentId |-> attachmentId, data |-> data, size |-> size]

Part(mimeType, filename, body, parts) ==
    [mimeType |-> mimeType, filename |-> filename, body |-> body,
     parts |-> parts, headers |-> None]

Leaf(mimeType, filename, body) == Part(mimeType, filename, body, None)
Container(parts) == Part(None, None, None, Some(parts))

\* "SGk" is base64 of "Hi", "YQ" of "a", "PGI-" is url-safe base64 of "<b>"
DataHi == <<"S","G","k">>
DataA == <<"Y","Q">>
DataB == <<"P","G","I","-">>
DataPadded == <<"Y","Q","=","=">>

PlainHi == Leaf(Some("text/plain"), None, Some(Body(None, Some(DataHi), None)))
PlainA == Leaf(Some("text/plain"), None, Some(Body(None, Some(DataA), None)))
HtmlB == Leaf(Some("text/html"), None, Some(Body(None, Some(DataB), None)))
Pdf == Leaf(Some("application/pdf"), Some("test.pdf"),
            Some(Body(Some("att123"), None, Some(12345))))
PlainAttachment == Leaf(Some("text/plain"), Some("note.txt"),
                        Some(Body(Some("att7"), Some(DataHi), Some(2))))
HtmlAttachment == Leaf(Some("text/html"), None,
                       Some(Body(Some("att8"), Some(DataB), None)))
Png == Leaf(Some("image/png"), None, Some(Body(None, Some(DataA), None)))
NoBody == Leaf(Some("text/plain"), None, None)
EmptyBody == Leaf(Some("text/plain"), None, Some(Body(None, None, Some(0))))
EmptyData == Leaf(Some("text/html"), None, Some(Body(None, Some(<<>>), None)))
PaddedPlain == Leaf(Some("text/plain"), None, Some(Body(None, Some(DataPadded), None)))
NoMime == Leaf(None, None, Some(Body(None, Some(DataHi), None)))

\* the elements a parts array of an enumerated tree is built from
TreeLeaves == {Some(PlainHi), Some(PlainA), Some(HtmlB), Some(Pdf),
               Some(PlainAttachment), Some(Png), None}
\* the leaves tried one at a time, as the payload itself or as its only part
AllLeaves == {PlainHi, PlainA, HtmlB, Pdf, PlainAttachment, HtmlAttachment, Png,
              NoBody, EmptyBody, EmptyData, PaddedPlain, NoMime}

RECURSIVE ForestOfSize(_, _)
\* the parts arrays with exactly n parts in all, nested at most d levels deep
ForestOfSize(n, d) ==
    IF n = 0 THEN {<<>>}
    ELSE UNION {
           LET firsts ==
                 IF k = 1 THEN TreeLeaves \cup (IF d > 0 THEN {Some(Container(<<>>))} ELSE {})
                 ELSE IF d > 0
                      THEN {Some(Container(f)) : f \in ForestOfSize(k - 1, d - 1)}
                      ELSE {}
               rests == ForestOfSize(n - k, d)
           IN {<<p>> \o rest : p \in firsts, rest \in rests}
           : k \in 1..n }

\* larger trees, chosen for their shape: a sibling after a nested list of two,
\* three levels of nesting, a list nested between two leaves, Scenario A
\* with a nested alternative
ShapedForests ==
    {<<Some(Container(<<Some(PlainHi), Some(HtmlB)>>)), Some(PlainA)>>,
     <<Some(Container(<<Some(Container(<<Some(Container(<<Some(PlainA)>>)),
                                          Some(PlainHi)>>)),
                        Some(Pdf)>>)),
       Some(PlainA)>>,
     <<Some(PlainA), Some(Container(<<Some(PlainAttachment), Some(PlainHi)>>)),
       Some(PlainA), Some(Pdf)>>,
     <<Some(Container(<<Some(PlainHi), Some(HtmlB)>>)), Some(Pdf), Some(HtmlAttachment),
       Some(Container(<<>>)), Some(HtmlB)>>}

Forests == UNION {ForestOfSize(n, MaxDepth) : n \in 0..MaxNodes} \cup ShapedForests

\* parts that expose a parts sequence and carry a body of their own
BodiedContainer(parts) ==
    Part(Some("text/plain"), Some("c.txt"), Some(Body(None, Some(DataHi), None)), Some(parts))
AttachedContainer(parts) ==
    Part(Some("text/html"), Some("c.html"), Some(Body(Some("att9"), Some(DataB), Some(3))),
         Some(parts))
\* a payload that is such a part, over children that are such parts
ContainerPayloads ==
    {BodiedContainer(<<>>),
     AttachedContainer(<<>>),
     BodiedContainer(<<Some(PlainA), Some(AttachedContainer(<<Some(HtmlB), Some(Pdf)>>)),
                       Some(PlainA)>>),
     AttachedContainer(<<Some(BodiedContainer(<<>>)), Some(PlainHi)>>),
     Container(<<Some(AttachedContainer(<<Some(BodiedContainer(<<Some(PlainA)>>))>>)),
                 Some(HtmlB)>>),
     Container(<<Some(BodiedContainer(<<Some(PlainHi), None>>))>>)}

Header(name, value) == [name |-> name, value |-> value]

HeaderNames == {Some(<<"F","r","o","m">>), Some(<<"f","r","o","m">>),
                Some(<<"S","u","b","j","e","c","t">>), Some(<<"D","a","t","e">>),
                Some(<<"_","_","p","r","o","t","o","_","_">>)}
HeaderValues == {<<"a","@","b">>, <<"H","i">>}
\* a header without a name makes header.name.toLowerCase() throw
Headers == {Header(n, v) : n \in HeaderNames, v \in HeaderValues}
             \cup {Header(None, <<"H","i">>)}

RECURSIVE SeqsUpTo(_, _)
\* the sequences over S of length at most n
SeqsUpTo(S, n) ==
    IF n = 0 THEN {<<>>}
    ELSE LET shorter == SeqsUpTo(S, n - 1)
             longest == {t \in shorter : Len(t) = n - 1}
         IN shorter \cup {<<x>> \o s : x \in S, s \in longest}

HeaderLists == SeqsUpTo(Headers, MaxHeaders)

Payload(headers, part) == [part EXCEPT !.headers = headers]

Message(id, internalDate, threadId, labelIds, payload) ==
    [id |-> id, internalDate |-> internalDate, threadId |-> threadId,
     labelIds |-> labelIds, payload |-> payload]

ValidDate == Some(<<"1","7","3","4">>)

\* messages that differ in their part tree
TreeMessages ==
    {Message(Some("test123"), ValidDate, Some("thread123"), Some(<<"INBOX">>),
             Some(Payload(Some(<<>>), Container(f)))) : f \in Forests}

\* messages whose payload is a single leaf, or holds a single leaf
LeafMessages ==
    {Message(Some("test123"), ValidDate, None, None, Some(Payload(None, l)))
       : l \in AllLeaves}
    \cup
    {Message(Some("test123"), ValidDate, None, None,
             Some(Payload(None, Container(<<Some(l)>>)))) : l \in AllLeaves}

\* messages with parts that are list and leaf at once
ContainerMessages ==
    {Message(Some("test123"), ValidDate, None, None, Some(Payload(Some(<<>>), p)))
       : p \in ContainerPayloads}

\* messages that differ in their header list
HeaderMessages ==
    {Message(Some("test123"), ValidDate, None, Some(<<"INBOX", "UNREAD">>),
             Some(Payload(Some(h), p)))
       : h \in HeaderLists, p \in {PlainHi, Container(<<Some(HtmlB), Some(Pdf)>>)}}

\* messages that differ in what they leave out
SeedMessages ==
    {Message(id, d, t, l, p) :
       id \in {None, Some("test123")},
       d \in {None, ValidDate, Some(<<"a","b","c">>), Some(<<>>)},
       t \in {None, Some("thread123")},
       l \in {None, Some(<<>>), Some(<<"INBOX">>)},
       p \in {None,
              Some(Payload(Some(<<>>), Container(<<>>))),
              Some(Payload(Some(<<>>), EmptyBody)),
              Some(Payload(Some(<<>>), NoBody)),
              Some(Payload(None, PlainHi)),
              Some(Payload(Some(<<Header(Some(<<"F","r","o","m">>), <<"a","@","b">>)>>),
                           Container(<<Some(PlainHi), Some(HtmlB), Some(Pdf)>>)))}}

\* decodeEmail's argument: Some(message), or None for a null message
Messages == {None} \cup {Some(m) : m \in TreeMessages \cup LeafMessages
                                         \cup HeaderMessages \cup SeedMessages
                                         \cup ContainerMessages}

(***************************************************************************)
(* State.                                                                  *)
(***************************************************************************)
VARIABLES
    pc,            \* where the running decodeEmail is: "idle", "headers",
                   \* "body", "parts", "return", "done"
    message,       \* decodeEmail's argument
    decodedEmail,  \* the record decodeEmail builds, None before it is seeded
    hdrIdx,        \* the index of the next header of the forEach
    stack,         \* the active decodeParts calls: [parts, i], innermost last
    calls,         \* the parts decodeBody has been called with, in call order
    result,        \* what decodeEmail gave its caller: [status, record, error]
    copy,          \* the copy of FeatureExtractor in use: "featureExtraction.js"
                   \* (src/featureExtraction.js) or "part_002" (src/unnamed/part_002)
    features,      \* extractMetaFeatures' argument: [sender, subject, markdown]
    meta,          \* what extractMetaFeatures returned, None before the call
    \* FeatureExtractor.extract
    xpc,           \* where the running extract is: "idle", "tokenizing",
                   \* "features", "done"
    extractor,     \* the copy of FeatureExtractor the instance was made from
    email,         \* extract's argument
    evIdx,         \* the index of the next token the tokenizer reads
    sequence,      \* extractTagSequence's local sequence
    position,      \* extractTagSequence's local position
    tokenizerRuns, \* how many htmlparser2 parsers extract has created and run
    converterRuns, \* how many times extract has called nhm.translate
    extracted,     \* what extract returned, None before it returns
    \* EMLPreprocessor.process
    epc,           \* "idle" before process is called, "reading" after
    now,           \* the clock Date.now() reads, in milliseconds
    cbLog,         \* the arguments of the parser's callback invocations so far
    promise,       \* the promise process creates: [state, value, error]
    deferred,      \* the promise process returns (promise.then(...))
    \* GmailPreprocessor.process
    gpc,           \* "idle", "decoding", "done"
    gemail,        \* process' argument
    gresult,       \* what process gave its caller: [status, record, error]
    \* OutlookPreprocessor.process
    omessage,      \* process' argument, None before the call
    oresult,       \* what process gave its caller: [status, record, error]
    \* the objects the decoders' callers hold, by reference
    heap,          \* the arrays and objects allocated so far; an address is
                   \* an index into this sequence
    held,          \* the Mail-API message the caller holds, None before it
                   \* is made: [labelIds, given]
    parsed,        \* the outputs the EML parser handed over, one per call
    returned,      \* the records decodeEmail and EMLPreprocessor.process
                   \* returned: a reference for each mutable component
    \* a caller making several extract calls, one after the other
    instance,      \* the FeatureExtractor instance the current call is on
    xlog,          \* the earlier calls: [instance, email, returned]
    \* two EMLPreprocessor.process calls in flight at once
    invocations    \* for each call: [pc, callbacks, promise, deferred]

decVars == <<pc, message, decodedEmail, hdrIdx, stack, calls, result>>
featVars == <<copy, features, meta>>
xVars == <<xpc, extractor, email, evIdx, sequence, position, tokenizerRuns,
           converterRuns, extracted>>
emlVars == <<epc, now, cbLog, promise, deferred>>
gVars == <<gpc, gemail, gresult>>
oVars == <<omessage, oresult>>
refVars == <<heap, held, parsed, returned>>
sessVars == <<instance, xlog>>
pairVars == <<invocations>>
vars == <<decVars, featVars, xVars, emlVars, gVars, oVars, refVars, sessVars, pairVars>>

\* what the steps of one component leave alone
decOthers == <<featVars, xVars, emlVars, gVars, oVars, refVars, sessVars, pairVars>>
featOthers == <<decVars, xVars, emlVars, gVars, oVars, refVars, sessVars, pairVars>>
xOthers == <<decVars, featVars, emlVars, gVars, oVars, refVars, sessVars, pairVars>>
emlOthers == <<decVars, featVars, xVars, gVars, oVars, refVars, sessVars, pairVars>>
gOthers == <<featVars, xVars, emlVars, oVars, refVars, sessVars, pairVars>>
oOthers == <<decVars, featVars, xVars, emlVars, gVars, refVars, sessVars, pairVars>>
refOthers == <<decVars, featVars, xVars, emlVars, gVars, oVars, sessVars, pairVars>>
sessOthers == <<decVars, featVars, emlVars, gVars, oVars, refVars, pairVars>>
\* the clock is shared with the single call
pairOthers == <<decVars, featVars, xVars, epc, cbLog, promise, deferred, gVars, oVars, refVars, sessVars>>

NoResult == [status |-> "none", record |-> None, error |-> None]
Returned(rec) == [status |-> "returned", record |-> Some(rec), error |-> None]

\* `Failed to decode email: ${error.message}`
DecodeErrorPrefix == "Failed to decode email: "
DecodeError(cause) == DecodeErrorPrefix \o cause

\* a catch block that gives up the error and hands out the record built so far
Raise_partialRecord(cause) ==
    /\ pc' = "done"
    /\ result' = [status |-> "returned", record |-> decodedEmail, error |-> None]

\* the catch block of decodeEmail: the record built so far is dropped
Raise(cause) ==
    /\ pc' = "done"
    /\ result' = [status |-> "raised", record |-> None, error |-> Some(DecodeError(cause))]

(***************************************************************************)
(* new Date(Number(message.internalDate)).toISOString()                    *)
(***************************************************************************)
NaN == [nan |-> TRUE, n |-> 0]
Num(n) == [nan |-> FALSE, n |-> n]

RECURSIVE DigitsValue(_)
DigitsValue(s) ==
    IF s = <<>> THEN 0
    ELSE 10 * DigitsValue(SubSeq(s, 1, Len(s) - 1)) + (IndexOf(s[Len(s)], Digits) - 1)

\* Number(x): undefined is NaN, "" is 0, a run of digits its value, other text NaN
ToNumber(x) ==
    IF ~IsSome(x) THEN NaN
    ELSE IF \A i \in 1..Len(Get(x)) : InSeq(Get(x)[i], Digits)
         THEN Num(DigitsValue(Get(x)))
         ELSE NaN

\* toISOString throws a RangeError on an invalid Date (a NaN time value; the
\* enumerated dates are far below the largest time value, 8.64e15 ms)
DateIsValid(num) == ~num.nan
\* the ISO text of a valid Date, kept as the time value it prints
ToISOString(num) == <<"ISO", num.n>>

(***************************************************************************)
(* GmailEmailDecoder.decodeBody                                            *)
(***************************************************************************)
\* JavaScript truthiness of an optional string
TruthyStr(o) == IsSome(o) /\ Get(o) # ""
TruthySeq(o) == IsSome(o) /\ Get(o) # <<>>

\* the descriptor with the size read from the part and not from its body
Attachment_sizeOfPart(part) ==
    [id |-> Get(Get(part.body).attachmentId), filename |-> part.filename,
     mimeType |-> part.mimeType, size |-> None]

\* { id: body.attachmentId, filename: part.filename, mimeType, size: body.size }
Attachment(part) ==
    [id |-> Get(Get(part.body).attachmentId), filename |-> part.filename,
     mimeType |-> part.mimeType, size |-> Get(part.body).size]

\* decodeBody with the new text put in front of the old
decodeBody_prepend(part, rec) ==
    IF ~IsSome(part.body) THEN rec
    ELSE LET body == Get(part.body) IN
         IF TruthyStr(body.attachmentId)
         THEN [rec EXCEPT !.attachments = Append(@, Attachment(part))]
         ELSE IF TruthySeq(body.data)
              THEN LET content == DecodeData(Get(body.data)) IN
                   IF part.mimeType = Some("text/plain")
                   THEN [rec EXCEPT !.body.plain = content \o @]
                   ELSE IF part.mimeType = Some("text/html")
                        THEN [rec EXCEPT !.body.html = content \o @]
                        ELSE rec
              ELSE rec

\* decodeBody with the data branch tried before the attachment branch
decodeBody_dataFirst(part, rec) ==
    IF ~IsSome(part.body) THEN rec
    ELSE LET body == Get(part.body) IN
         IF TruthySeq(body.data)
         THEN LET content == DecodeData(Get(body.data)) IN
              IF part.mimeType = Some("text/plain")
              THEN [rec EXCEPT !.body.plain = @ \o content]
              ELSE IF part.mimeType = Some("text/html")
                   THEN [rec EXCEPT !.body.html = @ \o content]
                   ELSE rec
         ELSE IF TruthyStr(body.attachmentId)
              THEN [rec EXCEPT !.attachments = Append(@, Attachment(part))]
              ELSE rec

\* decodeBody with text/plain as the default case of the switch
decodeBody_plainByDefault(part, rec) ==
    IF ~IsSome(part.body) THEN rec
    ELSE LET body == Get(part.body) IN
         IF TruthyStr(body.attachmentId)
         THEN [rec EXCEPT !.attachments = Append(@, Attachment(part))]
         ELSE IF TruthySeq(body.data)
              THEN LET content == DecodeData(Get(body.data)) IN
                   IF part.mimeType = Some("text/html")
                   THEN [rec EXCEPT !.body.html = @ \o content]
                   ELSE [rec EXCEPT !.body.plain = @ \o content]
              ELSE rec

decodeBody(part, rec) ==
    IF ~IsSome(part.body) THEN rec
    ELSE LET body == Get(part.body) IN
         IF TruthyStr(body.attachmentId)
         THEN [rec EXCEPT !.attachments = Append(@, Attachment(part))]
         ELSE IF TruthySeq(body.data)
              THEN LET content == DecodeData(Get(body.data)) IN
                   IF part.mimeType = Some("text/plain")
                   THEN [rec EXCEPT !.body.plain = @ \o content]
                   ELSE IF part.mimeType = Some("text/html")
                        THEN [rec EXCEPT !.body.html = @ \o content]
                        ELSE rec
              ELSE rec

(***************************************************************************)
(* GmailEmailDecoder.decodeEmail, step by step                             *)
(***************************************************************************)
NoHeaders == [k \in {} |-> <<>>]

\* the object literal of lines 11-24
Seed(m) ==
    [id |-> m.id,
     date |-> ToISOString(ToNumber(m.internalDate)),
     threadId |-> m.threadId,
     labelIds |-> IF IsSome(m.labelIds) THEN Get(m.labelIds) ELSE <<>>,
     headers |-> NoHeaders,
     sender |-> <<>>,
     subject |-> <<>>,
     body |-> [plain |-> <<>>, html |-> <<>>],
     attachments |-> <<>>]

\* the call, up to the end of the object literal
SeedRecord(m) ==
    /\ pc = "idle"
    /\ message' = m
    /\ IF ~IsSome(m)
       THEN /\ Raise("Cannot read properties of null (reading 'id')")
            /\ UNCHANGED decodedEmail
       ELSE IF ~DateIsValid(ToNumber(Get(m).internalDate))
            THEN /\ Raise("Invalid time value")
                 /\ UNCHANGED decodedEmail
            ELSE /\ decodedEmail' = Some(Seed(Get(m)))
                 /\ pc' = "headers"
                 /\ UNCHANGED result
    /\ UNCHANGED <<hdrIdx, stack, calls>>

\* decodeEmail called directly
decodeEmail(m) ==
    /\ gpc = "idle"
    /\ SeedRecord(m)
    /\ UNCHANGED decOthers

\* the key `__proto__` names the prototype accessor: assigning a string to it
\* creates no property
SetHeader(headers, name, value) ==
    IF name = <<"_","_","p","r","o","t","o","_","_">> THEN headers
    ELSE (name :> value) @@ headers

\* the forEach body without the toLowerCase
ApplyHeader_caseKept(rec, header) ==
    LET headerName == Get(header.name)
        r1 == [rec EXCEPT !.headers = SetHeader(@, headerName, header.value)]
    IN IF headerName = <<"f","r","o","m">> THEN [r1 EXCEPT !.sender = header.value]
       ELSE IF headerName = <<"s","u","b","j","e","c","t">>
            THEN [r1 EXCEPT !.subject = header.value]
            ELSE r1

\* the forEach body with sender and subject taken from the first From and
\* Subject header only
ApplyHeader_firstWins(rec, header) ==
    LET headerName == toLowerCase(Get(header.name))
        r1 == [rec EXCEPT !.headers = SetHeader(@, headerName, header.value)]
    IN IF headerName = <<"f","r","o","m">> /\ rec.sender = <<>>
       THEN [r1 EXCEPT !.sender = header.value]
       ELSE IF headerName = <<"s","u","b","j","e","c","t">> /\ rec.subject = <<>>
            THEN [r1 EXCEPT !.subject = header.value]
            ELSE r1

\* the body of the forEach over message.payload.headers
ApplyHeader(rec, header) ==
    LET headerName == toLowerCase(Get(header.name))
        r1 == [rec EXCEPT !.headers = SetHeader(@, headerName, header.value)]
    IN IF headerName = <<"f","r","o","m">> THEN [r1 EXCEPT !.sender = header.value]
       ELSE IF headerName = <<"s","u","b","j","e","c","t">>
            THEN [r1 EXCEPT !.subject = header.value]
            ELSE r1

\* lines 27-39, one header at a time
processHeaders ==
    /\ pc = "headers"
    /\ IF ~IsSome(Get(message).payload)
       THEN /\ Raise("Cannot read properties of null (reading 'headers')")
            /\ UNCHANGED <<decodedEmail, hdrIdx>>
       ELSE LET headers == Get(Get(message).payload).headers IN
            IF ~IsSome(headers) \/ hdrIdx > Len(Get(headers))
            THEN /\ pc' = "body"
                 /\ UNCHANGED <<decodedEmail, hdrIdx, result>>
            ELSE LET header == Get(headers)[hdrIdx] IN
                 IF ~IsSome(header.name)
                 THEN /\ Raise("Cannot read properties of undefined (reading 'toLowerCase')")
                      /\ UNCHANGED <<decodedEmail, hdrIdx>>
                 ELSE /\ decodedEmail' = Some(ApplyHeader(Get(decodedEmail), header))
                      /\ hdrIdx' = hdrIdx + 1
                      /\ UNCHANGED <<pc, result>>
    /\ UNCHANGED <<message, stack, calls>>
    /\ UNCHANGED decOthers

\* a test that takes an empty parts array for no parts at all
HasParts_nonEmpty(part) == IsSome(part.parts) /\ Get(part.parts) # <<>>

\* if (part.parts), if (message.payload.parts): an array, empty or not, is truthy
HasParts(part) == IsSome(part.parts)

\* a forEach that leaves out every second element
Advance_skipping(call) == [call EXCEPT !.i = @ + 2]

\* forEach moves on to the next element
Advance(call) == [call EXCEPT !.i = @ + 1]

\* lines 42-47
processBody ==
    /\ pc = "body"
    /\ LET payload == Get(Get(message).payload) IN
       IF HasParts(payload)
       THEN /\ stack' = <<[parts |-> Get(payload.parts), i |-> 1]>>
            /\ pc' = "parts"
            /\ UNCHANGED <<decodedEmail, calls>>
       ELSE /\ decodedEmail' = Some(decodeBody(payload, Get(decodedEmail)))
            /\ calls' = Append(calls, payload)
            /\ pc' = "return"
            /\ UNCHANGED stack
    /\ UNCHANGED <<message, hdrIdx, result>>
    /\ UNCHANGED decOthers

\* GmailEmailDecoder.decodeParts: one iteration of the innermost forEach, or
\* the return of the innermost call when its forEach is over
decodeParts ==
    /\ pc = "parts"
    /\ LET top == stack[Len(stack)]
           rest == SubSeq(stack, 1, Len(stack) - 1)
       IN IF top.i > Len(top.parts)
          THEN /\ stack' = rest
               /\ pc' = IF rest = <<>> THEN "return" ELSE "parts"
               /\ UNCHANGED <<decodedEmail, calls, result>>
          ELSE LET part == top.parts[top.i]
                   advanced == Append(rest, Advance(top))
               IN IF ~IsSome(part)
                  THEN /\ Raise("Cannot read properties of null (reading 'parts')")
                       /\ UNCHANGED <<decodedEmail, calls, stack>>
                  ELSE IF HasParts(Get(part))
                       THEN /\ stack' = Append(advanced, [parts |-> Get(Get(part).parts), i |-> 1])
                            /\ UNCHANGED <<pc, decodedEmail, calls, result>>
                       ELSE /\ decodedEmail' = Some(decodeBody(Get(part), Get(decodedEmail)))
                            /\ calls' = Append(calls, Get(part))
                            /\ stack' = advanced
                            /\ UNCHANGED <<pc, result>>
    /\ UNCHANGED <<message, hdrIdx>>
    /\ UNCHANGED decOthers

\* line 49
returnDecoded ==
    /\ pc = "return"
    /\ result' = Returned(Get(decodedEmail))
    /\ pc' = "done"
    /\ UNCHANGED <<message, decodedEmail, hdrIdx, stack, calls>>
    /\ UNCHANGED decOthers

DecoderIdle ==
    /\ pc = "idle"
    /\ message = None
    /\ decodedEmail = None
    /\ hdrIdx = 1
    /\ stack = <<>>
    /\ calls = <<>>
    /\ result = NoResult

NoFeatures == [sender |-> <<>>, subject |-> <<>>, markdown |-> <<>>]

ExtractorIdle ==
    /\ copy = "featureExtraction.js"
    /\ features = NoFeatures
    /\ meta = None

NoExtraction == [sender |-> <<>>, subject |-> <<>>, body |-> [plain |-> <<>>, html |-> None]]

ExtractIdle ==
    /\ xpc = "idle"
    /\ extractor = "featureExtraction.js"
    /\ email = NoExtraction
    /\ evIdx = 1
    /\ sequence = <<>>
    /\ position = 0
    /\ tokenizerRuns = 0
    /\ converterRuns = 0
    /\ extracted = None

\* the reading of Date.now() before process is called
Epoch == 1734000000

Pending == [state |-> "pending", value |-> None, error |-> None]

EmlIdle ==
    /\ epc = "idle"
    /\ now = Epoch
    /\ cbLog = <<>>
    /\ promise = Pending
    /\ deferred = Pending

GmailIdle ==
    /\ gpc = "idle"
    /\ gemail = None
    /\ gresult = NoResult

OutlookIdle ==
    /\ omessage = None
    /\ oresult = NoResult

PairIdle ==
    invocations = [k \in {1, 2} |->
                      [pc |-> "idle", callbacks |-> 0, promise |-> Pending,
                       deferred |-> Pending]]

SessionIdle ==
    /\ instance = 1
    /\ xlog = <<>>

HeapIdle ==
    /\ heap = <<>>
    /\ held = None
    /\ parsed = <<>>
    /\ returned = <<>>

\* nothing has been called yet
Idle ==
    /\ DecoderIdle /\ ExtractorIdle /\ ExtractIdle /\ EmlIdle /\ GmailIdle /\ OutlookIdle
    /\ HeapIdle
    /\ SessionIdle
    /\ PairIdle

DecodeInit == Idle

DecodeNext ==
    \/ pc = "idle" /\ \E m \in Messages : decodeEmail(m)
    \/ processHeaders
    \/ processBody
    \/ decodeParts
    \/ returnDecoded

DecodeSpec == DecodeInit /\ [][DecodeNext]_vars

(***************************************************************************)
(* What the claims speak of, stated over the message and not over the      *)
(* steps of the decoder.                                                   *)
(***************************************************************************)
RECURSIVE LeavesOf(_)
\* the leaf parts of a parts array, depth first, siblings in array order
LeavesOf(parts) ==
    IF parts = <<>> THEN <<>>
    ELSE LET p == Get(Head(parts))
         IN (IF IsSome(p.parts) THEN LeavesOf(Get(p.parts)) ELSE <<p>>)
            \o LeavesOf(Tail(parts))

\* the leaves of a message: those of payload.parts, or else the payload itself
MessageLeaves(m) ==
    LET payload == Get(m.payload)
    IN IF IsSome(payload.parts) THEN LeavesOf(Get(payload.parts)) ELSE <<payload>>

HasAttachmentId(p) == IsSome(p.body) /\ IsSome(Get(p.body).attachmentId)
HasData(p) == IsSome(p.body) /\ IsSome(Get(p.body).data)
IsTextLeaf(p, mime) == HasData(p) /\ ~HasAttachmentId(p) /\ p.mimeType = Some(mime)

RECURSIVE TextOf(_, _)
\* the decoded text of the leaves of one mime type, concatenated
TextOf(leaves, mime) ==
    IF leaves = <<>> THEN <<>>
    ELSE (IF IsTextLeaf(Head(leaves), mime)
          THEN DecodeData(Get(Get(Head(leaves).body).data)) ELSE <<>>)
         \o TextOf(Tail(leaves), mime)

Done == pc = "done"
DidReturn == result.status = "returned"
DidRaise == result.status = "raised"
Rec == Get(result.record)
Msg == Get(message)
Last(s) == s[Len(s)]

\* C1: the returned body.plain (body.html) is the concatenation, without a
\* separator, of the decoded text of the text/plain (text/html) leaves in
\* depth-first, sibling-order traversal
C1_BodyIsConcatenation ==
    DidReturn =>
        /\ Rec.body.plain = TextOf(MessageLeaves(Msg), "text/plain")
        /\ Rec.body.html = TextOf(MessageLeaves(Msg), "text/html")

\* a record was returned for: a, [att(Hi), Hi], a, pdf
C1_Witness ==
    /\ DidReturn
    /\ IsSome(Get(Msg.payload).parts)
    /\ Len(Get(Get(Msg.payload).parts)) = 4
    /\ Len(calls) = 5
    /\ Rec.body.plain = <<"a","H","i","a">>

\* the header list of the message, empty when the payload has none
HeaderList == IF IsSome(Get(Msg.payload).headers) THEN Get(Get(Msg.payload).headers) ELSE <<>>
NameFrom == <<"f","r","o","m">>
NameSubject == <<"s","u","b","j","e","c","t">>
NameProto == <<"_","_","p","r","o","t","o","_","_">>
LowerName(h) == toLowerCase(Get(h.name))

\* C2 as stated: every header of the list is found under its lowercased
\* name with its own value, and sender/subject equal the value of any
\* From/Subject header
C2_Original ==
    DidReturn =>
        \A i \in 1..Len(HeaderList) :
            LET h == HeaderList[i] IN
            /\ LowerName(h) \in DOMAIN Rec.headers
            /\ Rec.headers[LowerName(h)] = h.value
            /\ LowerName(h) = NameFrom => Rec.sender = h.value
            /\ LowerName(h) = NameSubject => Rec.subject = h.value

\* header i is the last of the list with its lowercased name
IsLastOfName(i) ==
    \A j \in (i + 1)..Len(HeaderList) : LowerName(HeaderList[j]) # LowerName(HeaderList[i])

\* C2, amended: the same for every header that is the last one of the list
\* with its lowercased name; the name __proto__ is never stored
C2_LastHeaderWins ==
    DidReturn =>
        \A i \in 1..Len(HeaderList) :
            LET h == HeaderList[i] IN
            /\ (IsLastOfName(i) /\ LowerName(h) # NameProto) =>
                   /\ LowerName(h) \in DOMAIN Rec.headers
                   /\ Rec.headers[LowerName(h)] = h.value
            /\ (IsLastOfName(i) /\ LowerName(h) = NameFrom) => Rec.sender = h.value
            /\ (IsLastOfName(i) /\ LowerName(h) = NameSubject) => Rec.subject = h.value
            /\ LowerName(h) = NameProto => NameProto \notin DOMAIN Rec.headers

\* a record was returned for a list of two From headers, differently cased,
\* with different values
C2_Witness ==
    /\ DidReturn
    /\ Len(HeaderList) = 2
    /\ HeaderList[1].name # HeaderList[2].name
    /\ LowerName(HeaderList[1]) = NameFrom
    /\ LowerName(HeaderList[2]) = NameFrom
    /\ HeaderList[1].value # HeaderList[2].value
    /\ Rec.sender = HeaderList[2].value

\* a step that calls decodeBody
CallsDecodeBody == calls' # calls

\* C3: a decodeBody call on a leaf whose body carries an attachmentId leaves
\* body.plain and body.html as they were
C3_AttachmentLeavesBodyAlone ==
    [][(CallsDecodeBody /\ HasAttachmentId(Last(calls')))
          => Get(decodedEmail').body = Get(decodedEmail).body]_vars

\* decodeBody has just been called on a text/plain leaf with an attachmentId
\* and data, after a text/plain leaf had filled body.plain
C3_Witness ==
    /\ Len(calls) = 2
    /\ calls[1] = PlainA
    /\ calls[2] = PlainAttachment
    /\ Get(decodedEmail).body.plain = <<"a">>
    /\ Len(Get(decodedEmail).attachments) = 1

RECURSIVE HasNullPart(_)
\* some element of the parts tree is null
HasNullPart(parts) ==
    \E i \in 1..Len(parts) :
        \/ ~IsSome(parts[i])
        \/ IsSome(parts[i]) /\ IsSome(Get(parts[i]).parts) /\ HasNullPart(Get(Get(parts[i]).parts))

\* the message of the first exception decoding the message meets, None when
\* it meets none: the record is seeded, then the headers are read, then the
\* parts are traversed
FirstFailure(m) ==
    IF ~IsSome(m) THEN Some("Cannot read properties of null (reading 'id')")
    ELSE IF ToNumber(Get(m).internalDate).nan THEN Some("Invalid time value")
    ELSE IF ~IsSome(Get(m).payload)
         THEN Some("Cannot read properties of null (reading 'headers')")
    ELSE LET payload == Get(Get(m).payload) IN
         IF IsSome(payload.headers)
            /\ \E i \in 1..Len(Get(payload.headers)) : ~IsSome(Get(payload.headers)[i].name)
         THEN Some("Cannot read properties of undefined (reading 'toLowerCase')")
         ELSE IF IsSome(payload.parts) /\ HasNullPart(Get(payload.parts))
              THEN Some("Cannot read properties of null (reading 'parts')")
              ELSE None

\* C4: decodeEmail ends in exactly one of two ways: it returns a record and
\* no error, or, when an exception was raised anywhere, it raises one error
\* whose message is "Failed to decode email: " followed by the message of
\* that exception, and returns no record; a null payload raises
C4_AllOrNothing ==
    /\ ~Done => result = NoResult
    /\ Done =>
        IF IsSome(FirstFailure(message))
        THEN /\ DidRaise
             /\ result.record = None
             /\ result.error = Some("Failed to decode email: " \o Get(FirstFailure(message)))
        ELSE /\ DidReturn
             /\ IsSome(result.record)
             /\ result.error = None
    /\ (Done /\ IsSome(message) /\ ~IsSome(Msg.payload)) => DidRaise

\* decodeEmail raised on a null part after a text/plain leaf had been decoded
\* into the record
C4_Witness ==
    /\ DidRaise
    /\ Len(calls) > 0
    /\ Get(decodedEmail).body.plain # <<>>
    /\ result.record = None

\* the messages of the test "should handle missing or empty fields" and of
\* Scenario B: an id and a payload with no headers and no content
MinimalPayloads == {Payload(Some(<<>>), Container(<<>>)), Payload(Some(<<>>), EmptyBody),
                    Payload(Some(<<>>), NoBody)}
IsMinimal(m) ==
    /\ IsSome(m)
    /\ Get(m).internalDate = None
    /\ Get(m).threadId = None
    /\ Get(m).labelIds = None
    /\ IsSome(Get(m).payload)
    /\ Get(Get(m).payload) \in MinimalPayloads

\* C5: for a message with only an id and an empty payload, decodeEmail
\* returns a record with empty labelIds, headers, sender, subject, body and
\* attachments
C5_MinimalMessageDecodes ==
    (Done /\ IsMinimal(message)) =>
        /\ DidReturn
        /\ Rec.labelIds = <<>>
        /\ Rec.headers = NoHeaders
        /\ Rec.sender = <<>>
        /\ Rec.subject = <<>>
        /\ Rec.body = [plain |-> <<>>, html |-> <<>>]
        /\ Rec.attachments = <<>>

CanonicalFields == {"id", "threadId", "labelIds", "headers", "sender", "subject",
                    "body", "attachments"}

\* C6: a returned record has the canonical fields and no other, and its body
\* has plain and html and no other
C6_OnlyCanonicalFields ==
    DidReturn =>
        /\ DOMAIN Rec = CanonicalFields
        /\ DOMAIN Rec.body = {"plain", "html"}

RECURSIVE AttachmentsOf(_)
\* one descriptor per leaf with an attachmentId, in the order of the leaves
AttachmentsOf(leaves) ==
    IF leaves = <<>> THEN <<>>
    ELSE LET p == Head(leaves) IN
         (IF HasAttachmentId(p)
          THEN <<[id |-> Get(Get(p.body).attachmentId), filename |-> p.filename,
                  mimeType |-> p.mimeType, size |-> Get(p.body).size]>>
          ELSE <<>>)
         \o AttachmentsOf(Tail(leaves))

ScenarioAParts == <<Some(PlainHi), Some(HtmlB), Some(Pdf)>>

\* C7: the returned attachments are the descriptors of the leaves with an
\* attachmentId, one each, in depth-first order; a message with a text/plain,
\* a text/html and an attachment part gets both bodies and one descriptor
C7_AttachmentsAreTheAttachmentLeaves ==
    DidReturn =>
        /\ Rec.attachments = AttachmentsOf(MessageLeaves(Msg))
        /\ Get(Msg.payload).parts = Some(ScenarioAParts) =>
              /\ Rec.body.plain = <<"H","i">>
              /\ Rec.body.html = <<"<","b",">">>
              /\ Rec.attachments = <<[id |-> "att123", filename |-> Some("test.pdf"),
                                      mimeType |-> Some("application/pdf"),
                                      size |-> Some(12345)]>>

\* a record was returned with two descriptors, the first of a nested leaf
\* that also carries data, and with leaves that gave none
C7_Witness ==
    /\ DidReturn
    /\ Len(calls) = 5
    /\ Len(Rec.attachments) = 2
    /\ Rec.attachments[1].id = "att7"
    /\ Rec.attachments[2].id = "att123"

(***************************************************************************)
(* FeatureExtractor.extractMetaFeatures.  The repository holds two copies  *)
(* of the class: src/featureExtraction.js keeps the joined string as it    *)
(* is, src/unnamed/part_002 canonicalises its whitespace.                  *)
(***************************************************************************)
\* a context longer than this is clipped
MaxContextLen == 512
\* the enumerated long markdown texts run up to MaxOver characters past it
MaxOver == 2

\* the characters the regular expression class \s and trim() take as whitespace
IsWhitespace(c) == c \in {" ", "\t", "\n", "\r"}

Indices(s) == [i \in 1..Len(s) |-> i]

\* `${features.sender} ${features.subject} ${features.markdown}`
RawContext(f) == f.sender \o <<" ">> \o f.subject \o <<" ">> \o f.markdown

\* context.replace(/\s+/g, ' '): of every run of whitespace the first
\* character stays, as a space
ReplaceWhitespaceRuns(s) ==
    LET kept == SelectSeq(Indices(s),
                          LAMBDA i : ~IsWhitespace(s[i]) \/ i = 1 \/ ~IsWhitespace(s[i - 1]))
    IN [k \in 1..Len(kept) |-> IF IsWhitespace(s[kept[k]]) THEN " " ELSE s[kept[k]]]

\* String.prototype.trim
Trim(s) ==
    LET inked == SelectSeq(Indices(s), LAMBDA i : ~IsWhitespace(s[i]))
    IN IF inked = <<>> THEN <<>> ELSE SubSeq(s, inked[1], inked[Len(inked)])

\* context.replace(/\s+/g, ' ').trim()
Canonicalize(s) == Trim(ReplaceWhitespaceRuns(s))

\* a clip that keeps one character too many
Truncate_oneTooMany(context) ==
    IF Len(context) > MaxContextLen THEN SubSeq(context, 1, MaxContextLen + 1) ELSE context

\* context.length > 512 ? context.slice(0, 512) : context
Truncate(context) ==
    IF Len(context) > MaxContextLen THEN SubSeq(context, 1, MaxContextLen) ELSE context

\* extractMetaFeatures of src/featureExtraction.js
extractMetaFeatures(f) ==
    LET context == RawContext(f)
    IN [context |-> context, truncatedContext |-> Truncate(context)]

\* extractMetaFeatures of src/unnamed/part_002
extractMetaFeatures_part002(f) ==
    LET context == Canonicalize(RawContext(f))
    IN [context |-> context, truncatedContext |-> Truncate(context)]

Rep(c, n) == [i \in 1..n |-> c]

Senders == {<<>>, <<"a","@","b">>, <<" "," ","a","@","b"," "," ">>}
Subjects == {<<>>, <<"H","i">>, <<"\n"," ","H","i"," ","\n">>, <<"R","e",":","\t","H","i">>}
LongLengths == (MaxContextLen - 10)..(MaxContextLen + MaxOver)
Markdowns ==
    {<<>>, <<" ">>, <<"x"," "," "," ","y">>, <<"\n","\n","x"," "," ","y","\n">>,
     <<"x","\r","\n","y">>, <<"*","x","*">>}
    \cup {Rep("x", n) : n \in LongLengths}
    \cup {Rep("x", 300) \o <<" ","\n"," ">> \o Rep("y", n - 300) : n \in {MaxContextLen - 8, MaxContextLen}}

FeatureInputs ==
    {[sender |-> a, subject |-> b, markdown |-> c] : a \in Senders, b \in Subjects, c \in Markdowns}

\* a call of extractMetaFeatures on an extractor of src/featureExtraction.js
callExtractMetaFeatures(f) ==
    /\ meta = None
    /\ copy' = "featureExtraction.js"
    /\ features' = f
    /\ meta' = Some(extractMetaFeatures(f))
    /\ UNCHANGED featOthers

\* a call of extractMetaFeatures on an extractor of src/unnamed/part_002
callExtractMetaFeatures_part002(f) ==
    /\ meta = None
    /\ copy' = "part_002"
    /\ features' = f
    /\ meta' = Some(extractMetaFeatures_part002(f))
    /\ UNCHANGED featOthers

FeatureInit == Idle

FeatureNext ==
    \/ \E f \in FeatureInputs : callExtractMetaFeatures(f)
    \/ \E f \in FeatureInputs : callExtractMetaFeatures_part002(f)

FeatureSpec == FeatureInit /\ [][FeatureNext]_vars

(***************************************************************************)
(* The canonical form of a string, stated by its words.                    *)
(***************************************************************************)
RECURSIVE WordsOf(_)
\* the maximal runs of characters that are not whitespace, in order
WordsOf(s) ==
    LET inked == SelectSeq(Indices(s), LAMBDA i : ~IsWhitespace(s[i]))
    IN IF inked = <<>> THEN <<>>
       ELSE LET a == inked[1]
                gaps == SelectSeq(Indices(s), LAMBDA i : i > a /\ IsWhitespace(s[i]))
                e == IF gaps = <<>> THEN Len(s) + 1 ELSE gaps[1]
            IN <<SubSeq(s, a, e - 1)>> \o WordsOf(SubSeq(s, e, Len(s)))

RECURSIVE JoinWords(_)
\* the words with one space between neighbours
JoinWords(ws) ==
    IF ws = <<>> THEN <<>>
    ELSE IF Len(ws) = 1 THEN ws[1]
    ELSE ws[1] \o <<" ">> \o JoinWords(Tail(ws))

Context == Get(meta).context
TruncatedContext == Get(meta).truncatedContext

\* C8: the returned context is sender + " " + subject + " " + markdown with
\* every run of whitespace replaced by one space and the ends trimmed: it has
\* no tab or newline, no two adjacent whitespace characters, and no
\* whitespace at either end
C8_ContextIsCanonical ==
    IsSome(meta) =>
        /\ Context = JoinWords(WordsOf(RawContext(features)))
        /\ \A i \in 1..Len(Context) : Context[i] \notin {"\t", "\n", "\r"}
        /\ \A i \in 1..(Len(Context) - 1) :
               ~(IsWhitespace(Context[i]) /\ IsWhitespace(Context[i + 1]))
        /\ Context # <<>> =>
               /\ ~IsWhitespace(Context[1])
               /\ ~IsWhitespace(Context[Len(Context)])

\* C9: truncatedContext has at most 512 characters; it is context when
\* context has at most 512, and the first 512 characters of context otherwise
C9_TruncationBound ==
    IsSome(meta) =>
        /\ Len(TruncatedContext) <= MaxContextLen
        /\ Len(Context) <= MaxContextLen => TruncatedContext = Context
        /\ Len(Context) > MaxContextLen =>
               TruncatedContext = SubSeq(Context, 1, MaxContextLen)
        /\ SubSeq(Context, 1, Len(TruncatedContext)) = TruncatedContext

\* extractMetaFeatures returned a context one character too long, clipped
C9_Witness ==
    /\ IsSome(meta)
    /\ Len(Context) = MaxContextLen + 1
    /\ Len(TruncatedContext) = MaxContextLen
    /\ TruncatedContext # Context

\* C10: canonicalising a returned context again gives the same string
C10_CanonicalizeIsIdempotent ==
    IsSome(meta) => Canonicalize(Context) = Context

(***************************************************************************)
(* FeatureExtractor.extract.  The HTML text is written as the tokens the   *)
(* htmlparser2 tokenizer reads from it; an empty token list is the empty   *)
(* string.  Both copies of the class have the same extract,                *)
(* extractFeatures, extractTagSequence and extractMarkdown.                *)
(***************************************************************************)
\* the enumerated HTML bodies have at most MaxTokens tokens
MaxTokens == 3

Attr(name, value) == [name |-> name, value |-> value]
OpenTag(name, attributes) ==
    [type |-> "open", name |-> name, attributes |-> attributes, text |-> <<>>]
SelfClosingTag(name, attributes) ==
    [type |-> "selfclosing", name |-> name, attributes |-> attributes, text |-> <<>>]
CloseTag(name) == [type |-> "close", name |-> name, attributes |-> <<>>, text |-> <<>>]
Text(chars) == [type |-> "text", name |-> "", attributes |-> <<>>, text |-> chars]

\* with recognizeSelfClosing the parser reports <br/> as an open tag as well
IsOpenTagEvent(token) == token.type \in {"open", "selfclosing"}

Tokens == {OpenTag("div", <<Attr("class", "container"), Attr("id", "x")>>),
           OpenTag("b", <<>>), CloseTag("b"), CloseTag("div"),
           SelfClosingTag("br", <<>>), Text(<<"H","i">>)}

\* the body of the test "should extract tag sequence and markdown from HTML"
TestPage ==
    <<OpenTag("html", <<>>), OpenTag("head", <<>>), OpenTag("title", <<>>),
      Text(<<"T">>), CloseTag("title"), CloseTag("head"), OpenTag("body", <<>>),
      OpenTag("div", <<Attr("class", "container")>>), OpenTag("h1", <<>>),
      Text(<<"H","i">>), CloseTag("h1"), OpenTag("p", <<>>), Text(<<"a"," ">>),
      OpenTag("strong", <<>>), Text(<<"b">>), CloseTag("strong"), CloseTag("p"),
      CloseTag("div"), CloseTag("body"), CloseTag("html")>>

\* body.html: absent, the empty string, or a text with tokens
HtmlBodies == {None, Some(TestPage)} \cup {Some(d) : d \in SeqsUpTo(Tokens, MaxTokens)}

Emails ==
    {[sender |-> a, subject |-> <<"H","i">>, body |-> [plain |-> b, html |-> h]] :
        a \in {<<"a","@","b">>, <<" ","a","@","b"," ">>},
        b \in {<<>>, <<"x"," "," ","y">>},
        h \in HtmlBodies}

\* !email.body.html
HtmlIsFalsy(e) == ~IsSome(e.body.html) \/ Get(e.body.html) = <<>>

RECURSIVE translate(_)
\* this.nhm.translate(html), the Markdown converter: the text of the
\* document, bold and strong in asterisks, a first-level heading after "# "
translate(html) ==
    IF html = <<>> THEN <<>>
    ELSE LET t == Head(html)
             piece == IF t.type = "text" THEN t.text
                      ELSE IF t.name \in {"b", "strong"} /\ t.type \in {"open", "close"}
                           THEN <<"*", "*">>
                           ELSE IF t.name = "h1" /\ t.type = "open" THEN <<"#", " ">>
                                ELSE <<>>
         IN piece \o translate(Tail(html))

\* a markdown that prefers the plain text whenever there is one
extractMarkdown_plainFirst(e) ==
    IF HtmlIsFalsy(e) \/ e.body.plain # <<>> THEN e.body.plain
    ELSE translate(Get(e.body.html))

\* FeatureExtractor.extractMarkdown
extractMarkdown(e) ==
    IF HtmlIsFalsy(e) THEN e.body.plain ELSE translate(Get(e.body.html))

\* Object.entries(attributes).map(([name, value]) => ({name, value}))
AttributeEntries(attributes) ==
    [i \in 1..Len(attributes) |-> [name |-> attributes[i].name, value |-> attributes[i].value]]

\* an onopentag that numbers every tag with the same position
onopentag_noIncrement(seq, pos, token) ==
    [sequence |-> Append(seq, [tag |-> token.name, position |-> pos,
                               attributes |-> AttributeEntries(token.attributes)]),
     position |-> pos]

\* the onopentag callback: sequence.push({tag, position: position++, attributes})
onopentag(seq, pos, token) ==
    [sequence |-> Append(seq, [tag |-> token.name, position |-> pos,
                               attributes |-> AttributeEntries(token.attributes)]),
     position |-> pos + 1]

\* a feature set with sender and subject taken from each other
extractFeatures_swapped(e, seq, markdown) ==
    [tagSequence |-> seq, markdown |-> markdown, sender |-> e.subject, subject |-> e.sender]

\* FeatureExtractor.extractFeatures, given the tag sequence and the markdown
extractFeatures(e, seq, markdown) ==
    [tagSequence |-> seq, markdown |-> markdown, sender |-> e.sender, subject |-> e.subject]

\* extractMetaFeatures of the copy the extractor was made from
MetaFeaturesOf(c, f) ==
    IF c = "part_002" THEN extractMetaFeatures_part002(f) ELSE extractMetaFeatures(f)

\* {...features, ...metaFeatures}: a key of both takes the value of the second
Spread(first, second) == second @@ first

\* extract is called; extractTagSequence runs up to parser.write
extract(c, e) ==
    /\ xpc = "idle"
    /\ extractor' = c
    /\ email' = e
    /\ IF HtmlIsFalsy(e)
       THEN /\ xpc' = "features"
            /\ UNCHANGED tokenizerRuns
       ELSE /\ xpc' = "tokenizing"
            /\ tokenizerRuns' = tokenizerRuns + 1
    /\ UNCHANGED <<evIdx, sequence, position, converterRuns, extracted>>
    /\ UNCHANGED xOthers

\* parser.write / parser.end: the tokenizer reads one token, or ends
tokenize ==
    /\ xpc = "tokenizing"
    /\ LET html == Get(email.body.html) IN
       IF evIdx > Len(html)
       THEN /\ xpc' = "features"
            /\ UNCHANGED <<evIdx, sequence, position>>
       ELSE /\ evIdx' = evIdx + 1
            /\ IF IsOpenTagEvent(html[evIdx])
               THEN LET after == onopentag(sequence, position, html[evIdx]) IN
                    /\ sequence' = after.sequence
                    /\ position' = after.position
               ELSE UNCHANGED <<sequence, position>>
            /\ UNCHANGED xpc
    /\ UNCHANGED <<extractor, email, tokenizerRuns, converterRuns, extracted>>
    /\ UNCHANGED xOthers

\* the rest of extractFeatures, extractMetaFeatures and the return of extract
returnExtracted ==
    /\ xpc = "features"
    /\ LET feats == extractFeatures(email, sequence, extractMarkdown(email))
           metaFeatures == MetaFeaturesOf(extractor, feats)
       IN extracted' = Some(Spread(feats, metaFeatures))
    /\ converterRuns' = IF HtmlIsFalsy(email) THEN converterRuns ELSE converterRuns + 1
    /\ xpc' = "done"
    /\ UNCHANGED <<extractor, email, evIdx, sequence, position, tokenizerRuns>>
    /\ UNCHANGED xOthers

ExtractInit == Idle

ExtractNext ==
    \/ xpc = "idle" /\ \E c \in {"featureExtraction.js", "part_002"}, e \in Emails : extract(c, e)
    \/ tokenize
    \/ returnExtracted

ExtractSpec == ExtractInit /\ [][ExtractNext]_vars

Extracted == Get(extracted)
\* the open-tag events of the body, in the order the tokenizer emits them
OpenTagEvents == IF HtmlIsFalsy(email) THEN <<>> ELSE SelectSeq(Get(email.body.html), IsOpenTagEvent)

\* C11: the tag sequence has one entry per open-tag event (self-closing tags
\* included), in emission order, and its entry at index i has position i,
\* counting from 0, whatever the nesting
C11_PositionsCountOpenTags ==
    /\ \A i \in 1..Len(sequence) : sequence[i].position = i - 1
    /\ IsSome(extracted) =>
         /\ Len(Extracted.tagSequence) = Len(OpenTagEvents)
         /\ \A i \in 1..Len(OpenTagEvents) :
              /\ Extracted.tagSequence[i].tag = OpenTagEvents[i].name
              /\ Extracted.tagSequence[i].position = i - 1

\* extract returned the eight tags of the nested test page, the last at
\* position 7
C11_Witness ==
    /\ IsSome(extracted)
    /\ email.body.html = Some(TestPage)
    /\ Len(Extracted.tagSequence) = 8
    /\ Extracted.tagSequence[8] = [tag |-> "strong", position |-> 7, attributes |-> <<>>]
    /\ Extracted.tagSequence[5].attributes = <<[name |-> "class", value |-> "container"]>>

\* C12: with an empty or absent body.html, extract returns no tags and
\* body.plain as the markdown, and runs neither the tokenizer nor the
\* converter; otherwise the markdown is the converter's rendering of body.html
C12_EmptyHtmlFallsBackToPlain ==
    IsSome(extracted) =>
        IF HtmlIsFalsy(email)
        THEN /\ Extracted.tagSequence = <<>>
             /\ Extracted.markdown = email.body.plain
             /\ tokenizerRuns = 0
             /\ converterRuns = 0
        ELSE /\ Extracted.markdown = translate(Get(email.body.html))
             /\ tokenizerRuns = 1
             /\ converterRuns = 1

\* extract returned the plain text, whitespace and all, for an absent body.html
C12_Witness ==
    /\ IsSome(extracted)
    /\ email.body.html = None
    /\ Extracted.markdown = <<"x"," "," ","y">>
    /\ Extracted.tagSequence = <<>>

\* C13: extract returns the record's sender and subject, and the context and
\* truncatedContext extractMetaFeatures yields for the sender, subject and
\* markdown of the same result; the result has the fields of both and no other
C13_ExtractIsTheUnion ==
    IsSome(extracted) =>
        LET yielded == MetaFeaturesOf(extractor,
                           [sender |-> Extracted.sender, subject |-> Extracted.subject,
                            markdown |-> Extracted.markdown])
        IN /\ Extracted.sender = email.sender
           /\ Extracted.subject = email.subject
           /\ Extracted.context = yielded.context
           /\ Extracted.truncatedContext = yielded.truncatedContext
           /\ DOMAIN Extracted = {"tagSequence", "markdown", "sender", "subject",
                                  "context", "truncatedContext"}
           /\ Extracted.tagSequence = sequence

\* extract returned a sender with its spaces kept next to a canonical context
C13_Witness ==
    /\ IsSome(extracted)
    /\ extractor = "part_002"
    /\ Extracted.sender = <<" ","a","@","b"," ">>
    /\ Extracted.context = <<"a","@","b"," ","H","i"," ","x"," ","y">>

(***************************************************************************)
(* EMLPreprocessor.process.  readEml is an external parser: what is        *)
(* modelled of it is that it may invoke the callback it was given, any     *)
(* number of times, with any error and any value.                          *)
(***************************************************************************)
\* the parser invokes its callback at most MaxCallbacks times in one call
MaxCallbacks == 2
\* the clock advances at most MaxTicks milliseconds during one call
MaxTicks == 1

EmlAttachment(id, name, contentType, data64) ==
    [id |-> id, name |-> name, contentType |-> contentType, data64 |-> data64]
EmlJson(headers, from, subject, text, html, attachments) ==
    [headers |-> headers, from |-> from, subject |-> subject, text |-> text,
     html |-> html, attachments |-> attachments]

\* what the parser makes of the empty text
EmptyEmlJson == EmlJson(Some(NoHeaders), None, None, None, None, None)
TestHeaders ==
    (<<"F","r","o","m">> :> "sender@example.com")
    @@ (<<"S","u","b","j","e","c","t">> :> "Test Subject")
TestPdf == EmlAttachment(None, Some("test.pdf"), Some("application/pdf"), None)
FullAttachment == EmlAttachment(Some("a1"), Some("a.png"), Some("image/png"), Some("aGk="))
BareAttachment == EmlAttachment(Some(""), None, None, Some(""))
\* what the parser makes of the text of the test "processes EML correctly"
TestEmlJson ==
    EmlJson(Some(TestHeaders), Some([email |-> Some("sender@example.com")]),
            Some("Test Subject"), Some("This is plain text content."),
            Some("<p>This is HTML content</p>"), Some(<<Some(TestPdf)>>))

EmlJsons ==
    {EmptyEmlJson, TestEmlJson,
     [TestEmlJson EXCEPT !.headers = None],
     [TestEmlJson EXCEPT !.from = None],
     [TestEmlJson EXCEPT !.from = Some([email |-> None])],
     [TestEmlJson EXCEPT !.subject = Some("")],
     [TestEmlJson EXCEPT !.text = None],
     [TestEmlJson EXCEPT !.html = None, !.attachments = Some(<<>>)],
     [TestEmlJson EXCEPT !.attachments = Some(<<Some(FullAttachment), Some(BareAttachment)>>)],
     [TestEmlJson EXCEPT !.attachments = Some(<<Some(BareAttachment), Some(TestPdf), Some(FullAttachment)>>)],
     [EmptyEmlJson EXCEPT !.attachments = Some(<<Some(FullAttachment), None>>)]}

\* the callback's second argument: nothing, or a parsed message
CallbackValues == {None} \cup {Some(j) : j \in EmlJsons}
\* the callback's first argument: nothing, or an Error
CallbackErrors == {None, Some([message |-> "Missing EML file content!"]),
                   Some([message |-> ""])}

Fulfilled(value) == [state |-> "fulfilled", value |-> Some(value), error |-> None]
Rejected(msg) == [state |-> "rejected", value |-> None, error |-> Some(msg)]

\* a promise that lets every resolve and reject through
Settle_lastWins(p, outcome) == outcome

\* resolve / reject of a Promise: only the first one counts
Settle(p, outcome) == IF p.state = "pending" THEN outcome ELSE p

\* x || ''
OrEmpty(o) == IF TruthyStr(o) THEN Get(o) ELSE ""

\* emlJson.from?.email
FromEmail(emlJson) == IF IsSome(emlJson.from) THEN Get(emlJson.from).email ELSE None

\* the attachment descriptor of lines 109-114
EmlDescriptor(att) ==
    [id |-> OrEmpty(att.id), filename |-> OrEmpty(att.name),
     mimeType |-> OrEmpty(att.contentType),
     size |-> IF IsSome(att.data64) THEN Len(Get(att.data64)) ELSE 0]

\* emlJson.attachments || []
AttachmentsOrEmpty(emlJson) ==
    IF IsSome(emlJson.attachments) THEN Get(emlJson.attachments) ELSE <<>>

\* the exception the object literal throws, if it throws
ReshapeFailure(value) ==
    IF ~IsSome(value)
    THEN Some("Cannot read properties of undefined (reading 'headers')")
    ELSE IF \E i \in 1..Len(AttachmentsOrEmpty(Get(value))) :
               ~IsSome(AttachmentsOrEmpty(Get(value))[i])
         THEN Some("Cannot read properties of null (reading 'id')")
         ELSE None

\* a headers field with the keys lowercased, as the Mail-API decoder has them
EmlHeaders_lowercased(emlJson) ==
    IF ~IsSome(emlJson.headers) THEN None
    ELSE LET h == Get(emlJson.headers) IN
         Some([k \in {toLowerCase(n) : n \in DOMAIN h} |->
                  h[CHOOSE n \in DOMAIN h : toLowerCase(n) = k]])

\* headers: emlJson.headers
EmlHeaders(emlJson) == emlJson.headers

\* the object literal of lines 97-115, built at time t
Reshape(emlJson, t) ==
    [id |-> ToString(t),
     threadId |-> "",
     labelIds |-> <<>>,
     headers |-> EmlHeaders(emlJson),
     sender |-> OrEmpty(FromEmail(emlJson)),
     subject |-> OrEmpty(emlJson.subject),
     body |-> [plain |-> OrEmpty(emlJson.text), html |-> OrEmpty(emlJson.html)],
     attachments |-> [i \in 1..Len(AttachmentsOrEmpty(emlJson)) |->
                         EmlDescriptor(Get(AttachmentsOrEmpty(emlJson)[i]))]]

EmlErrorPrefix == "Failed to process EML: "
EmlStructureErrorPrefix == "Failed to process EML structure: "

\* a callback with one prefix for both kinds of failure
readEmlCallback_onePrefix(err, value, t) ==
    IF IsSome(err) THEN Rejected(EmlErrorPrefix \o Get(err).message)
    ELSE IF IsSome(ReshapeFailure(value))
         THEN Rejected(EmlErrorPrefix \o Get(ReshapeFailure(value)))
         ELSE Fulfilled(Reshape(Get(value), t))

\* a callback that returns on an error without rejecting
readEmlCallback_errorDropped(err, value, t) ==
    IF IsSome(err) THEN Pending
    ELSE IF IsSome(ReshapeFailure(value))
         THEN Rejected(EmlStructureErrorPrefix \o Get(ReshapeFailure(value)))
         ELSE Fulfilled(Reshape(Get(value), t))

\* the callback given to readEml: what it passes to resolve or reject
readEmlCallback(err, value, t) ==
    IF IsSome(err) THEN Rejected(EmlErrorPrefix \o Get(err).message)
    ELSE IF IsSome(ReshapeFailure(value))
         THEN Rejected(EmlStructureErrorPrefix \o Get(ReshapeFailure(value)))
         ELSE Fulfilled(Reshape(Get(value), t))

\* process(eml): the promise is made, readEml is called, then() is chained
emlProcess ==
    /\ epc = "idle"
    /\ epc' = "reading"
    /\ UNCHANGED <<now, cbLog, promise, deferred>>
    /\ UNCHANGED emlOthers

\* the parser invokes the callback
callback(err, value) ==
    /\ epc = "reading"
    /\ Len(cbLog) < MaxCallbacks
    /\ cbLog' = Append(cbLog, [err |-> err, value |-> value, at |-> now])
    /\ promise' = Settle(promise, readEmlCallback(err, value, now))
    /\ UNCHANGED <<epc, now, deferred>>
    /\ UNCHANGED emlOthers

\* promise.then(result => { return result; }): the returned promise follows
thenResult ==
    /\ epc = "reading"
    /\ promise.state # "pending"
    /\ deferred.state = "pending"
    /\ deferred' = promise
    /\ UNCHANGED <<epc, now, cbLog, promise>>
    /\ UNCHANGED emlOthers

\* a millisecond passes
tick ==
    /\ now < Epoch + MaxTicks
    /\ now' = now + 1
    /\ UNCHANGED <<epc, cbLog, promise, deferred>>
    /\ UNCHANGED emlOthers

EmlInit == Idle

EmlNext ==
    \/ emlProcess
    \/ \E err \in CallbackErrors, value \in CallbackValues : callback(err, value)
    \/ thenResult
    \/ tick

EmlSpec == EmlInit /\ [][EmlNext]_vars

\* the parser's first invocation of the callback
FirstCallback == cbLog[1]
StartsWith(str, prefix) == Len(str) >= Len(prefix) /\ SubSeq(str, 1, Len(prefix)) = prefix
IsPromiseState(p) ==
    \/ p = Pending
    \/ p.state = "fulfilled" /\ IsSome(p.value) /\ ~IsSome(p.error)
    \/ p.state = "rejected" /\ IsSome(p.error) /\ ~IsSome(p.value)

\* C14: the promise process returns, and the one it is chained to, are
\* pending, fulfilled with a record or rejected with a wrapped failure, never
\* both; once the parser has invoked the callback the inner promise holds the
\* outcome of the first invocation, and a settled promise never changes
\* again, however often and with whatever arguments the callback is invoked
C14_SettlesOnce ==
    /\ [](/\ IsPromiseState(promise)
          /\ IsPromiseState(deferred)
          /\ cbLog = <<>> => promise = Pending
          /\ cbLog # <<>> =>
               promise = readEmlCallback(FirstCallback.err, FirstCallback.value,
                                         FirstCallback.at)
          /\ deferred \in {Pending, promise}
          /\ deferred.state = "rejected" =>
               \/ StartsWith(Get(deferred.error), "Failed to process EML: ")
               \/ StartsWith(Get(deferred.error), "Failed to process EML structure: "))
    /\ [][/\ promise.state # "pending" => promise' = promise
          /\ deferred.state # "pending" => deferred' = deferred]_vars

\* the result was rejected for a first invocation with an error and a value,
\* and a second invocation with a value alone changed nothing
C14_Witness ==
    /\ Len(cbLog) = 2
    /\ IsSome(cbLog[1].err) /\ IsSome(cbLog[1].value)
    /\ ~IsSome(cbLog[2].err) /\ cbLog[2].value = Some(TestEmlJson)
    /\ deferred.state = "rejected"

\* C15: a rejection carries "Failed to process EML: <cause>" exactly when the
\* parser reported an error, and "Failed to process EML structure: <cause>"
\* exactly when the parser reported none and the reshaping threw; <cause> is
\* the message of the parser's error, or of the exception; every such failure
\* rejects
C15_FailuresAreWrapped ==
    cbLog # <<>> =>
        LET parserFailed == IsSome(FirstCallback.err)
            thrown == ReshapeFailure(FirstCallback.value)
        IN /\ parserFailed =>
                promise = Rejected("Failed to process EML: "
                                   \o Get(FirstCallback.err).message)
           /\ ~parserFailed /\ IsSome(thrown) =>
                promise = Rejected("Failed to process EML structure: " \o Get(thrown))
           /\ promise.state = "rejected" => parserFailed \/ IsSome(thrown)
           /\ deferred.state = "rejected" => deferred = promise

\* the caller got the wrapped TypeError of a null attachment
C15_Witness ==
    /\ cbLog # <<>>
    /\ ~IsSome(FirstCallback.err)
    /\ deferred.state = "rejected"
    /\ deferred.error =
         Some("Failed to process EML structure: Cannot read properties of null (reading 'id')")

\* C16: a fulfilled record has threadId "", no labels, the parser's headers
\* as they are, the from-address's email or "", the parsed subject, text and
\* html or "", and one descriptor per parser attachment, in order, with "" for
\* a missing id, name or content type and 0 for a missing size; the parser's
\* output for the empty text gives empty headers, sender, subject, body and
\* attachments
C16_ReshapedRecord ==
    promise.state = "fulfilled" =>
        LET j == Get(FirstCallback.value)
            r == Get(promise.value)
            atts == IF IsSome(j.attachments) THEN Get(j.attachments) ELSE <<>>
        IN /\ r.threadId = ""
           /\ r.labelIds = <<>>
           /\ r.headers = j.headers
           /\ r.sender = IF IsSome(j.from) /\ IsSome(Get(j.from).email)
                         THEN Get(Get(j.from).email) ELSE ""
           /\ r.subject = IF IsSome(j.subject) THEN Get(j.subject) ELSE ""
           /\ r.body.plain = IF IsSome(j.text) THEN Get(j.text) ELSE ""
           /\ r.body.html = IF IsSome(j.html) THEN Get(j.html) ELSE ""
           /\ Len(r.attachments) = Len(atts)
           /\ \A i \in 1..Len(atts) :
                LET a == Get(atts[i]) d == r.attachments[i] IN
                /\ d.id = IF IsSome(a.id) THEN Get(a.id) ELSE ""
                /\ d.filename = IF IsSome(a.name) THEN Get(a.name) ELSE ""
                /\ d.mimeType = IF IsSome(a.contentType) THEN Get(a.contentType) ELSE ""
                /\ d.size = IF IsSome(a.data64) THEN Len(Get(a.data64)) ELSE 0
           /\ j = EmptyEmlJson =>
                /\ r.headers = Some(NoHeaders)
                /\ r.sender = "" /\ r.subject = ""
                /\ r.body = [plain |-> "", html |-> ""]
                /\ r.attachments = <<>>
           /\ deferred.state = "fulfilled" => deferred = promise

\* the caller got the record of a message with three attachments, headers in
\* their original case
C16_Witness ==
    /\ deferred.state = "fulfilled"
    /\ Get(deferred.value).id = "1734000001"
    /\ Get(deferred.value).headers = Some(TestHeaders)
    /\ Get(deferred.value).attachments =
         <<[id |-> "", filename |-> "", mimeType |-> "", size |-> 0],
           [id |-> "", filename |-> "test.pdf", mimeType |-> "application/pdf", size |-> 0],
           [id |-> "a1", filename |-> "a.png", mimeType |-> "image/png", size |-> 4]>>

(***************************************************************************)
(* OutlookPreprocessor.process.                                            *)
(***************************************************************************)
OutlookMessage(id, conversationId, from, subject, body, hasAttachments) ==
    [id |-> id, conversationId |-> conversationId, from |-> from,
     subject |-> subject, body |-> body, hasAttachments |-> hasAttachments]
EmailAddress(name, address) == [emailAddress |-> Some([name |-> name, address |-> address])]
ItemBody(contentType, content) == [contentType |-> contentType, content |-> content]

OutlookMessages ==
    {None}
    \cup {Some(OutlookMessage(id, c, from, subj, body, has)) :
            id \in {None, Some("m1")},
            c \in {None, Some("c1")},
            from \in {None, Some(EmailAddress(Some("A"), Some("a@b"))),
                      Some(EmailAddress(None, Some("a@b")))},
            subj \in {None, Some("Hi")},
            body \in {None}
                     \cup {Some(ItemBody(t, x)) : t \in {None, Some("text"), Some("html")},
                                                  x \in {None, Some("x"), Some("")}},
            has \in {None, Some(FALSE), Some(TRUE)}}

\* ${x} in a template literal
Interpolate(o) == IF IsSome(o) THEN Get(o) ELSE "undefined"

\* the TypeError the object literal throws, if it throws
OutlookFailure(m) ==
    IF ~IsSome(m) THEN Some("Cannot read properties of null (reading 'id')")
    ELSE IF ~IsSome(Get(m).from)
         THEN Some("Cannot read properties of undefined (reading 'emailAddress')")
         ELSE IF ~IsSome(Get(m).body)
              THEN Some("Cannot read properties of undefined (reading 'contentType')")
              ELSE None

\* an object literal that fills both body fields, "" for the other type
OutlookRecord_bothBodies(m) ==
    LET emailAddress == Get(Get(m.from).emailAddress)
        body == Get(m.body)
    IN [id |-> m.id,
        threadId |-> m.conversationId,
        labelIds |-> <<>>,
        headers |-> NoHeaders,
        sender |-> Interpolate(emailAddress.name) \o " <"
                   \o Interpolate(emailAddress.address) \o ">",
        subject |-> m.subject,
        body |-> IF body.contentType = Some("text")
                 THEN [plain |-> body.content, html |-> Some("")]
                 ELSE [plain |-> Some(""), html |-> body.content],
        attachments |-> IF m.hasAttachments = Some(TRUE)
                        THEN <<"call listAttachments">> ELSE <<>>]

\* the object literal of lines 46-62
OutlookRecord(m) ==
    LET emailAddress == Get(Get(m.from).emailAddress)
        body == Get(m.body)
    IN [id |-> m.id,
        threadId |-> m.conversationId,
        labelIds |-> <<>>,
        headers |-> NoHeaders,
        sender |-> Interpolate(emailAddress.name) \o " <"
                   \o Interpolate(emailAddress.address) \o ">",
        subject |-> m.subject,
        body |-> IF body.contentType = Some("text")
                 THEN [plain |-> body.content]
                 ELSE [html |-> body.content],
        attachments |-> IF m.hasAttachments = Some(TRUE)
                        THEN <<"call listAttachments">> ELSE <<>>]

\* OutlookPreprocessor.process: nothing catches what the literal throws
outlookProcess(m) ==
    /\ oresult = NoResult
    /\ omessage = None
    /\ omessage' = Some(m)
    /\ oresult' = IF IsSome(OutlookFailure(m))
                  THEN [status |-> "raised", record |-> None, error |-> OutlookFailure(m)]
                  ELSE Returned(OutlookRecord(Get(m)))
    /\ UNCHANGED oOthers

OutlookInit == Idle
OutlookNext == \E m \in OutlookMessages : outlookProcess(m)
OutlookSpec == OutlookInit /\ [][OutlookNext]_vars

DescriptorFields == {"id", "filename", "mimeType", "size"}

\* C17: every record a decoder returns has labelIds and attachments as
\* sequences, every attachment a descriptor, headers a mapping, and sender,
\* subject, body.plain and body.html all present as strings
C17_CanonicalInvariants ==
    /\ oresult.status = "returned" =>
         LET r == Get(oresult.record) IN
         /\ DOMAIN r.body = {"plain", "html"}
         /\ IsSome(r.body.plain) /\ IsSome(r.body.html)
         /\ IsSome(r.subject)
         /\ \A i \in 1..Len(r.attachments) : r.attachments[i] # "call listAttachments"
    /\ DidReturn =>
         /\ DOMAIN Rec.body = {"plain", "html"}
         /\ \A i \in 1..Len(Rec.attachments) : DOMAIN Rec.attachments[i] = DescriptorFields
         /\ DOMAIN Rec.labelIds = 1..Len(Rec.labelIds)
    /\ promise.state = "fulfilled" =>
         LET r == Get(promise.value) IN
         /\ IsSome(r.headers)
         /\ DOMAIN r.body = {"plain", "html"}
         /\ \A i \in 1..Len(r.attachments) : DOMAIN r.attachments[i] = DescriptorFields

\* C18: every attachment descriptor of a returned record has a filename, a
\* mimeType and a size, the empty string or zero standing in for what the
\* part leaves out
C18_DescriptorFieldsDefault ==
    DidReturn =>
        \A i \in 1..Len(Rec.attachments) :
            LET d == Rec.attachments[i] IN
            /\ d.id # ""
            /\ d.filename # None
            /\ d.mimeType # None
            /\ d.size # None

(***************************************************************************)
(* The same two decoders with their arrays and objects as references: what *)
(* a caller holding the input and the returned records can reach.  Only    *)
(* the mutable components are kept; their text is left out where no        *)
(* operation below reads it.                                               *)
(***************************************************************************)
\* the caller calls each decoder at most MaxRecords times in all
MaxRecords == 2
\* a labelIds array grows to at most MaxLabels entries
MaxLabels == 2

Array(items) == [kind |-> "array", items |-> items]
Object(fields) == [kind |-> "object", fields |-> fields]

\* the address the next allocation gets
NextAddr(h) == Len(h) + 1

\* the caller makes a Mail-API message, with or without labelIds
newMessage(labels) ==
    /\ held = None
    /\ IF IsSome(labels)
       THEN /\ heap' = Append(heap, Array(Get(labels)))
            /\ held' = Some([labelIds |-> Some(NextAddr(heap)), given |-> labels])
       ELSE /\ held' = Some([labelIds |-> None, given |-> None])
            /\ UNCHANGED heap
    /\ UNCHANGED <<parsed, returned>>
    /\ UNCHANGED refOthers

\* decodeEmail(message) on the held message: labelIds is message.labelIds
\* when the message has one and a new array otherwise; headers, body and
\* attachments are the literals of lines 16-23
decodeEmailByReference ==
    /\ IsSome(held)
    /\ Len(returned) < MaxRecords
    /\ LET m == Get(held)
           fresh == IF IsSome(m.labelIds) THEN <<>> ELSE <<Array(<<>>)>>
           h1 == heap \o fresh
           labelIds == IF IsSome(m.labelIds) THEN Get(m.labelIds) ELSE Len(h1)
       IN /\ heap' = h1 \o <<Object(NoHeaders),
                             Object([plain |-> <<>>, html |-> <<>>]), Array(<<>>)>>
          /\ returned' = Append(returned,
                 [by |-> "decodeEmail", labelIds |-> Some(labelIds),
                  headers |-> Some(Len(h1) + 1), body |-> Some(Len(h1) + 2),
                  attachments |-> Some(Len(h1) + 3)])
    /\ UNCHANGED <<held, parsed>>
    /\ UNCHANGED refOthers

\* EMLPreprocessor.process, the parser handing over a new emlJson with or
\* without headers: headers is emlJson.headers, the rest are new
emlProcessByReference(headers) ==
    /\ Len(returned) < MaxRecords
    /\ LET fresh == IF IsSome(headers) THEN <<Object(Get(headers))>> ELSE <<>>
           h1 == heap \o fresh
           ref == IF IsSome(headers) THEN Some(Len(h1)) ELSE None
       IN /\ parsed' = Append(parsed, [headers |-> ref, given |-> headers])
          /\ heap' = h1 \o <<Array(<<>>), Object([plain |-> "", html |-> ""]), Array(<<>>)>>
          /\ returned' = Append(returned,
                 [by |-> "EMLPreprocessor", labelIds |-> Some(Len(h1) + 1),
                  headers |-> ref, body |-> Some(Len(h1) + 2),
                  attachments |-> Some(Len(h1) + 3)])
    /\ UNCHANGED held
    /\ UNCHANGED refOthers

\* the caller: record.labelIds.push('STARRED') on a returned record
pushLabel(k) ==
    /\ k \in 1..Len(returned)
    /\ LET a == Get(returned[k].labelIds) IN
       /\ Len(heap[a].items) < MaxLabels
       /\ heap' = [heap EXCEPT ![a].items = Append(@, "STARRED")]
    /\ UNCHANGED <<held, parsed, returned>>
    /\ UNCHANGED refOthers

\* the caller: record.headers['X'] = '1' on a returned record
setHeader(k) ==
    /\ k \in 1..Len(returned)
    /\ IsSome(returned[k].headers)
    /\ LET a == Get(returned[k].headers) IN
       /\ <<"X">> \notin DOMAIN heap[a].fields
       /\ heap' = [heap EXCEPT ![a].fields = (<<"X">> :> "1") @@ @]
    /\ UNCHANGED <<held, parsed, returned>>
    /\ UNCHANGED refOthers

ReferenceInit == Idle

ReferenceNext ==
    \/ \E labels \in {None, Some(<<>>), Some(<<"INBOX">>)} : newMessage(labels)
    \/ decodeEmailByReference
    \/ \E headers \in {None, Some(NoHeaders), Some(TestHeaders)} :
          emlProcessByReference(headers)
    \/ \E k \in 1..MaxRecords : pushLabel(k)
    \/ \E k \in 1..MaxRecords : setHeader(k)

ReferenceSpec == ReferenceInit /\ [][ReferenceNext]_vars

\* the addresses of a record's mutable components
ComponentsOf(r) ==
    {Get(c) : c \in {x \in {r.labelIds, r.headers, r.body, r.attachments} : IsSome(x)}}
\* the addresses reachable from the inputs
InputComponents ==
    (IF IsSome(held) /\ IsSome(Get(held).labelIds) THEN {Get(Get(held).labelIds)} ELSE {})
    \cup {Get(parsed[i].headers) : i \in {j \in 1..Len(parsed) : IsSome(parsed[j].headers)}}

\* C19: the inputs stay as they were given, and no component of a returned
\* record is a component of an input or of another returned record
C19_InvocationsAreIndependent ==
    /\ IsSome(held) /\ IsSome(Get(held).labelIds) =>
         heap[Get(Get(held).labelIds)].items = Get(Get(held).given)
    /\ \A i \in 1..Len(parsed) :
         IsSome(parsed[i].headers) =>
            heap[Get(parsed[i].headers)].fields = Get(parsed[i].given)
    /\ \A k \in 1..Len(returned) : ComponentsOf(returned[k]) \cap InputComponents = {}
    /\ \A k1, k2 \in 1..Len(returned) :
         k1 # k2 => ComponentsOf(returned[k1]) \cap ComponentsOf(returned[k2]) = {}

(***************************************************************************)
(* GmailPreprocessor.process: decodeEmail(email.data) inside a try block.  *)
(* The decoder's steps are the ones of DecodeSpec.                         *)
(***************************************************************************)
GmailEmails == {None} \cup {Some([data |-> m]) : m \in Messages}

ProcessErrorPrefix == "Failed to process email: "

\* a catch block that throws the error it caught
ProcessError_rethrown(cause) == cause

\* new Error(`Failed to process email: ${error.message}`)
ProcessError(cause) == ProcessErrorPrefix \o cause

Raised(msg) == [status |-> "raised", record |-> None, error |-> Some(msg)]

\* process(email), up to the object literal of decodeEmail; reading data of
\* a null email throws inside the try block
gmailProcess(e) ==
    /\ gpc = "idle"
    /\ pc = "idle"
    /\ gemail' = e
    /\ IF ~IsSome(e)
       THEN /\ gresult' = Raised(ProcessError("Cannot read properties of null (reading 'data')"))
            /\ gpc' = "done"
            /\ UNCHANGED decVars
       ELSE /\ SeedRecord(Get(e).data)
            /\ gpc' = "decoding"
            /\ UNCHANGED gresult
    /\ UNCHANGED gOthers

\* decodeEmail has returned or thrown: return decodedEmail, or the catch block
gmailReturn ==
    /\ gpc = "decoding"
    /\ pc = "done"
    /\ gresult' = IF result.status = "returned" THEN result
                  ELSE Raised(ProcessError(Get(result.error)))
    /\ gpc' = "done"
    /\ UNCHANGED <<gemail, decVars>>
    /\ UNCHANGED gOthers

GmailInit == Idle

GmailNext ==
    \/ gpc = "idle" /\ \E e \in GmailEmails : gmailProcess(e)
    \/ processHeaders
    \/ processBody
    \/ decodeParts
    \/ returnDecoded
    \/ gmailReturn

GmailSpec == GmailInit /\ [][GmailNext]_vars

\* C20: process returns the record decodeEmail(email.data) returned; when
\* decodeEmail raised, or the email is null, process raises "Failed to
\* process email: " followed by the cause's message
C20_GmailProcessWraps ==
    gpc = "done" =>
        IF ~IsSome(gemail)
        THEN /\ gresult.status = "raised"
             /\ gresult.error =
                  Some("Failed to process email: Cannot read properties of null (reading 'data')")
        ELSE /\ message = Get(gemail).data
             /\ Done
             /\ DidReturn => gresult = Returned(Rec)
             /\ DidRaise =>
                  /\ gresult.status = "raised"
                  /\ gresult.record = None
                  /\ gresult.error = Some("Failed to process email: " \o Get(result.error))
                  /\ StartsWith(Get(result.error), "Failed to decode email: ")

\* process raised the wrapped DecodeError of a header without a name, met
\* after the record was seeded
C20_Witness ==
    /\ gpc = "done"
    /\ IsSome(gemail)
    /\ gresult.error =
         Some("Failed to process email: Failed to decode email: Cannot read properties of undefined (reading 'toLowerCase')")

(***************************************************************************)
(* Several extract calls, one after the other, on instances of one copy of *)
(* FeatureExtractor.  The constructor gives an instance its converter and  *)
(* nothing else; extractTagSequence makes its sequence and position anew.  *)
(***************************************************************************)
\* the caller makes at most MaxCalls extract calls
MaxCalls == 3

Instances == {1, 2}

SessionEmails ==
    {[sender |-> <<"a","@","b">>, subject |-> <<"H","i">>,
      body |-> [plain |-> b, html |-> h]] :
        b \in {<<>>, <<"x"," "," ","y">>},
        h \in {None,
               Some(<<OpenTag("b", <<>>), Text(<<"H","i">>), CloseTag("b")>>),
               Some(<<SelfClosingTag("br", <<>>),
                      OpenTag("div", <<Attr("class", "container")>>)>>)}}

\* a position that goes on from where the call before stopped
InitialPosition_carried(previous) == previous

\* let position = 0
InitialPosition(previous) == 0

\* a call after the first: extract(email) on instance i
extractAgain(i, e) ==
    /\ xpc = "done"
    /\ Len(xlog) + 1 < MaxCalls
    /\ xlog' = Append(xlog, [instance |-> instance, email |-> email,
                             returned |-> Get(extracted)])
    /\ instance' = i
    /\ email' = e
    /\ sequence' = <<>>
    /\ position' = InitialPosition(position)
    /\ evIdx' = 1
    /\ extracted' = None
    /\ IF HtmlIsFalsy(e)
       THEN /\ xpc' = "features"
            /\ UNCHANGED tokenizerRuns
       ELSE /\ xpc' = "tokenizing"
            /\ tokenizerRuns' = tokenizerRuns + 1
    /\ UNCHANGED <<extractor, converterRuns>>
    /\ UNCHANGED sessOthers

SessionInit == Idle

SessionNext ==
    \/ \E c \in {"featureExtraction.js", "part_002"}, e \in SessionEmails : extract(c, e)
    \/ \E i \in Instances, e \in SessionEmails : extractAgain(i, e)
    \/ tokenize
    \/ returnExtracted

SessionSpec == SessionInit /\ [][SessionNext]_vars

\* the calls that have returned, in order
ReturnedCalls ==
    xlog \o (IF xpc = "done"
             THEN <<[instance |-> instance, email |-> email, returned |-> Get(extracted)]>>
             ELSE <<>>)

\* C21: two extract calls with equal records return equal feature sets,
\* whether on the same instance or on two, whatever their order and whatever
\* calls lie between them
C21_ExtractIsDeterministic ==
    \A i, j \in 1..Len(ReturnedCalls) :
        ReturnedCalls[i].email = ReturnedCalls[j].email
            => ReturnedCalls[i].returned = ReturnedCalls[j].returned

\* the first and the third call, on two instances, had the same record with
\* tags in it and returned the same; the call between them had another record
C21_Witness ==
    /\ Len(ReturnedCalls) = 3
    /\ ReturnedCalls[1].email = ReturnedCalls[3].email
    /\ ReturnedCalls[1].email # ReturnedCalls[2].email
    /\ ReturnedCalls[1].instance # ReturnedCalls[3].instance
    /\ Len(ReturnedCalls[3].returned.tagSequence) = 2
    /\ Len(ReturnedCalls[2].returned.tagSequence) = 1
    /\ ReturnedCalls[3].returned = ReturnedCalls[1].returned

(***************************************************************************)
(* Two EMLPreprocessor.process calls at once.  Each has its own promise    *)
(* and its own callback; Date.now() reads the one clock.                   *)
(***************************************************************************)
PairCallbackValues == {None, Some(EmptyEmlJson), Some(TestEmlJson)}

\* process(eml), call k
emlProcessOf(k) ==
    /\ invocations[k].pc = "idle"
    /\ invocations' = [invocations EXCEPT ![k].pc = "reading"]
    /\ UNCHANGED now
    /\ UNCHANGED pairOthers

\* the parser invokes the callback of call k
callbackOf(k, err, value) ==
    /\ invocations[k].pc = "reading"
    /\ invocations[k].callbacks < MaxCallbacks
    /\ invocations' =
         [invocations EXCEPT ![k].callbacks = @ + 1,
                             ![k].promise = Settle(@, readEmlCallback(err, value, now))]
    /\ UNCHANGED now
    /\ UNCHANGED pairOthers

\* promise.then(result => { return result; }) of call k
thenResultOf(k) ==
    /\ invocations[k].pc = "reading"
    /\ invocations[k].promise.state # "pending"
    /\ invocations[k].deferred.state = "pending"
    /\ invocations' = [invocations EXCEPT ![k].deferred = invocations[k].promise]
    /\ UNCHANGED now
    /\ UNCHANGED pairOthers

PairInit == Idle

PairNext ==
    \/ \E k \in {1, 2} : emlProcessOf(k)
    \/ \E k \in {1, 2}, err \in CallbackErrors, value \in PairCallbackValues :
          callbackOf(k, err, value)
    \/ \E k \in {1, 2} : thenResultOf(k)
    \/ tick

PairSpec == PairInit /\ [][PairNext]_vars

\* C22: two process calls that both return a record return records with
\* different ids
C22_IdsAreDistinct ==
    invocations[1].deferred.state = "fulfilled" /\ invocations[2].deferred.state = "fulfilled"
        => Get(invocations[1].deferred.value).id # Get(invocations[2].deferred.value).id

(***************************************************************************)
(* The traversal of the part tree, stated over the trace of decodeBody     *)
(* calls.                                                                  *)
(***************************************************************************)
IsPrefix(a, b) == Len(a) <= Len(b) /\ SubSeq(b, 1, Len(a)) = a
\* the message is one decodeEmail gets through without an exception
Decodable == IsSome(message) /\ ~IsSome(FirstFailure(message))
BodyOrAttachmentsChange ==
    /\ IsSome(decodedEmail) /\ IsSome(decodedEmail')
    /\ \/ Get(decodedEmail').body # Get(decodedEmail).body
       \/ Get(decodedEmail').attachments # Get(decodedEmail).attachments

\* C23: decodeBody is never called on a part or payload that exposes a parts
\* sequence, so body and attachments change only in a call on a part without
\* one and hold what the leaves below give, nothing of a list's own body; the
\* calls follow the leaves depth first, a list's children before its next
\* sibling, and a returned message had one call for each part without parts
C23_ContainersAreNeverLeaves ==
    /\ [](/\ \A i \in 1..Len(calls) : ~IsSome(calls[i].parts)
          /\ (Decodable /\ pc # "idle") => IsPrefix(calls, MessageLeaves(Msg))
          /\ DidReturn =>
               /\ Len(calls) = Len(MessageLeaves(Msg))
               /\ Rec.body.plain = TextOf(MessageLeaves(Msg), "text/plain")
               /\ Rec.body.html = TextOf(MessageLeaves(Msg), "text/html")
               /\ Rec.attachments = AttachmentsOf(MessageLeaves(Msg)))
    /\ [][BodyOrAttachmentsChange =>
             /\ Len(calls') = Len(calls) + 1
             /\ ~IsSome(Last(calls').parts)
             /\ Get(decodedEmail') = decodeBody(Last(calls'), Get(decodedEmail))]_vars

\* a record was returned for a payload with data of its own over a, a list
\* with an attachmentId of its own over <b> and a pdf, and a: the calls are
\* the four leaves and the record holds nothing of the two lists
C23_Witness ==
    /\ DidReturn
    /\ Get(Msg.payload).body = Some(Body(None, Some(DataHi), None))
    /\ calls = <<PlainA, HtmlB, Pdf, PlainA>>
    /\ Rec.body = [plain |-> <<"a","a">>, html |-> <<"<","b",">">>]
    /\ Len(Rec.attachments) = 1
    /\ Rec.attachments[1].id = "att123"

\* C24: a decodeBody call leaves the record as it was when the leaf has no
\* body, when its body has neither attachmentId nor data, and when it has
\* data of a mimeType other than text/plain and text/html; on a leaf with an
\* attachmentId it changes attachments alone, on a text/plain leaf body.plain
\* alone, on a text/html leaf body.html alone
C24_LeafFrame ==
    [][CallsDecodeBody =>
         LET leaf == Last(calls')
             before == Get(decodedEmail)
             after == Get(decodedEmail')
         IN IF HasAttachmentId(leaf)
            THEN after = [before EXCEPT !.attachments = after.attachments]
            ELSE IF ~IsSome(leaf.body) \/ ~HasData(leaf)
                    \/ leaf.mimeType \notin {Some("text/plain"), Some("text/html")}
                 THEN after = before
                 ELSE IF leaf.mimeType = Some("text/plain")
                      THEN after = [before EXCEPT !.body.plain = after.body.plain]
                      ELSE after = [before EXCEPT !.body.html = after.body.html]]_vars

\* decodeBody has just been called on an image leaf with data, after a
\* text/plain leaf: the record still holds the text of the first leaf only
C24_Witness ==
    /\ pc = "parts"
    /\ calls = <<PlainHi, Png>>
    /\ Get(decodedEmail).body = [plain |-> <<"H","i">>, html |-> <<>>]
    /\ Get(decodedEmail).attachments = <<>>

\* decodeEmail is synchronous: once called it runs on to its return or throw
DecodeFairSpec ==
    DecodeSpec /\ WF_vars(processHeaders \/ processBody \/ decodeParts \/ returnDecoded)

\* C25: a decodeEmail call comes to its end, and when it returns decodeBody
\* has been called on the leaves of the part tree, each once, none left out,
\* in array order at every level
C25_TraversalTerminates ==
    /\ (pc # "idle") ~> Done
    /\ [](DidReturn => calls = MessageLeaves(Msg))
    /\ [](pc = "parts" => \A k \in 1..Len(stack) : stack[k].i <= Len(stack[k].parts) + 1)

\* decodeEmail returned for a tree three levels deep: a list of a list of a
\* list, with a sibling at every level
C25_Witness ==
    /\ DidReturn
    /\ IsSome(Get(Msg.payload).parts)
    /\ Len(Get(Get(Msg.payload).parts)) = 2
    /\ calls = <<PlainA, PlainHi, Pdf, PlainA>>
    /\ stack = <<>>

\* the value under a key of the headers mapping, "" when the key is not there
HeaderOrEmpty(rec, name) == IF name \in DOMAIN rec.headers THEN rec.headers[name] ELSE <<>>
\* a step of the forEach over the headers that handles a header
HandlesHeader == pc = "headers" /\ hdrIdx' = hdrIdx + 1

\* C26: sender is headers["from"] and subject is headers["subject"], each ""
\* when the key is not there, in the record as it is built and as it is
\* returned; the last header of the list with the lowercased name from
\* (subject) gives the entry and the sender (subject); a header with another
\* name leaves sender and subject as they were
C26_SenderSubjectFollowHeaders ==
    /\ [](IsSome(decodedEmail) =>
             /\ Get(decodedEmail).sender = HeaderOrEmpty(Get(decodedEmail), NameFrom)
             /\ Get(decodedEmail).subject = HeaderOrEmpty(Get(decodedEmail), NameSubject))
    /\ [](DidReturn =>
             /\ Rec.sender = HeaderOrEmpty(Rec, NameFrom)
             /\ Rec.subject = HeaderOrEmpty(Rec, NameSubject)
             /\ \A i \in 1..Len(HeaderList) :
                  LET h == HeaderList[i] IN
                  /\ (IsLastOfName(i) /\ LowerName(h) = NameFrom) =>
                        Rec.headers[NameFrom] = h.value /\ Rec.sender = h.value
                  /\ (IsLastOfName(i) /\ LowerName(h) = NameSubject) =>
                        Rec.headers[NameSubject] = h.value /\ Rec.subject = h.value
             /\ (\A i \in 1..Len(HeaderList) : LowerName(HeaderList[i]) # NameFrom)
                   => NameFrom \notin DOMAIN Rec.headers /\ Rec.sender = <<>>
             /\ (\A i \in 1..Len(HeaderList) : LowerName(HeaderList[i]) # NameSubject)
                   => NameSubject \notin DOMAIN Rec.headers /\ Rec.subject = <<>>)
    /\ [][(HandlesHeader /\ LowerName(HeaderList[hdrIdx]) \notin {NameFrom, NameSubject}) =>
             /\ Get(decodedEmail').sender = Get(decodedEmail).sender
             /\ Get(decodedEmail').subject = Get(decodedEmail).subject]_vars

\* a record was returned for the list From, Date: the Date header is stored
\* and the sender is still the From header's value, the subject still ""
C26_Witness ==
    /\ DidReturn
    /\ Len(HeaderList) = 2
    /\ HeaderList[1].name = Some(<<"F","r","o","m">>)
    /\ HeaderList[2].name = Some(<<"D","a","t","e">>)
    /\ HeaderList[1].value # HeaderList[2].value
    /\ Rec.sender = HeaderList[1].value
    /\ Rec.headers[<<"d","a","t","e">>] = HeaderList[2].value
    /\ Rec.subject = <<>>

\* the reaction of promise.then runs once the promise is settled
EmlFairSpec == EmlSpec /\ WF_vars(thenResult)

\* a step in which the parser invokes the callback
InvokesCallback == Len(cbLog') = Len(cbLog) + 1

\* C27: the result is pending as long as the parser has not invoked the
\* callback, however much time passes; the first invocation settles the
\* promise in that very step, and the result process returned follows it
\* without anything further from the parser
C27_SettledByTheCallback ==
    /\ [](cbLog = <<>> => promise = Pending /\ deferred = Pending)
    /\ [][(InvokesCallback /\ cbLog = <<>>) =>
             /\ promise'.state # "pending"
             /\ promise' = readEmlCallback(cbLog'[1].err, cbLog'[1].value, now)]_vars
    /\ [][deferred' # deferred => deferred = Pending /\ deferred' = promise
                                  /\ promise.state # "pending"]_vars
    /\ (cbLog # <<>>) ~> (deferred.state # "pending")

\* the parser called back once, a millisecond after process was called, and
\* the result, pending until then, is fulfilled
C27_Witness ==
    /\ Len(cbLog) = 1
    /\ cbLog[1].at = Epoch + 1
    /\ deferred.state = "fulfilled"
    /\ Get(deferred.value).id = ToString(Epoch + 1)

\* C28: a record OutlookPreprocessor.process returns has a body with one
\* field, plain when the message's content type is 'text' and html otherwise,
\* holding the content; its threadId is the conversationId; its headers and
\* labelIds are empty; its sender is the display name, a space and the
\* address in angle brackets; and its attachments are empty when
\* hasAttachments is false (or absent) and not empty when it is true
C28_OutlookMapping ==
    oresult.status = "returned" =>
        LET m == Get(Get(omessage))
            r == Get(oresult.record)
            content == Get(m.body)
            address == Get(Get(m.from).emailAddress)
        IN /\ DOMAIN r.body \in {{"plain"}, {"html"}}
           /\ (DOMAIN r.body = {"plain"}) <=> (content.contentType = Some("text"))
           /\ \A k \in DOMAIN r.body : r.body[k] = content.content
           /\ r.threadId = m.conversationId
           /\ r.headers = NoHeaders
           /\ r.labelIds = <<>>
           /\ (IsSome(address.name) /\ IsSome(address.address)) =>
                r.sender = Get(address.name) \o " <" \o Get(address.address) \o ">"
           /\ (~IsSome(address.name) /\ IsSome(address.address)) =>
                r.sender = "undefined <" \o Get(address.address) \o ">"
           /\ IsSome(m.hasAttachments) =>
                (r.attachments = <<>> <=> m.hasAttachments = Some(FALSE))
           /\ ~IsSome(m.hasAttachments) => r.attachments = <<>>

\* an html message with attachments, a display name and a conversation id
\* was processed
C28_Witness ==
    /\ oresult.status = "returned"
    /\ Get(Get(omessage)).hasAttachments = Some(TRUE)
    /\ Get(oresult.record).body = [html |-> Some("x")]
    /\ Get(oresult.record).sender = "A <a@b>"
    /\ Get(oresult.record).threadId = Some("c1")
    /\ Get(oresult.record).attachments = <<"call listAttachments">>

====
